---- MODULE Spec2Model ----
(***************************************************************************)
(* A model of srt-subtitle-processor: the SRT data model (TimeCode,        *)
(* SubtitleBlock, SRTDocument, ProcessingConfig), the parser, the          *)
(* language detector, SDH removal, the compliance validator and the        *)
(* orchestrator SRTProcessor.                                              *)
(*                                                                         *)
(* Text is modelled at the level of code points: a str is a sequence of    *)
(* one-character strings.  A code point outside ASCII is written as the    *)
(* token "U+XXXX" of its number (the module is ASCII).  Exceptions are     *)
(* modelled as result records with ok = FALSE.  Time is an integer number  *)
(* of milliseconds (the parser makes no finer timedelta).  Floating-point  *)
(* comparisons of ratios are modelled by exact cross-multiplication.       *)
(***************************************************************************)
EXTENDS Integers, Sequences, FiniteSets, TLC

VARIABLES
    config,      \* SRTProcessor.config, the ProcessingConfig object (shared with the caller)
    supplied,    \* the field values the caller gave that ProcessingConfig
    last,        \* what the most recent process_file / check_file_only call produced
    handled,     \* number of files handled by this SRTProcessor so far
    doc,         \* SDH removal: the source SRTDocument (its blocks)
    sdhOut,      \* SDH removal: the returned SRTDocument and the call that made it
    rtDoc,       \* round trip: the SRTDocument to serialise
    rtText,      \* round trip: the text to_srt_format returned
    rtParsed,    \* round trip: what parse_content made of that text
    tm,          \* time codes: a time string and what parsing and formatting made of it
    eng,         \* line engines: a block, the engine and what process_block made of it
    batch,       \* batch loop: the files found, the position of the loop and its counters
    det          \* language detector: a text and the language each method gave it

vars == <<config, supplied, last, handled, doc, sdhOut, rtDoc, rtText, rtParsed, tm, eng, batch, det>>

None == "None"

-----------------------------------------------------------------------------
(* Python str primitives *)

WS == {" ", "\n", "\t", "\r"}

DigitCh == <<"0", "1", "2", "3", "4", "5", "6", "7", "8", "9">>

RECURSIVE lstrip(_)
lstrip(s) == IF s # <<>> /\ Head(s) \in WS THEN lstrip(Tail(s)) ELSE s

RECURSIVE rstrip(_)
rstrip(s) == IF s # <<>> /\ s[Len(s)] \in WS THEN rstrip(SubSeq(s, 1, Len(s) - 1)) ELSE s

strip(s) == lstrip(rstrip(s))

SetMin(S) == CHOOSE x \in S : \A y \in S : x <= y

\* F applied to the value of v, which is computed once
With(v, F(_)) == CHOOSE r \in {F(x) : x \in {v}} : TRUE

\* s.find(sep), 1-based: the first position where sep occurs in s, 0 when none
find(s, sep) ==
    LET at(hits) == IF hits = {} THEN 0 ELSE SetMin(hits)
    IN  at({i \in 1..(Len(s) - Len(sep) + 1) : SubSeq(s, i, i + Len(sep) - 1) = sep})

RECURSIVE split(_, _)
split(s, sep) ==
    LET i == find(s, sep)
    IN  IF i = 0 THEN <<s>>
        ELSE <<SubSeq(s, 1, i - 1)>> \o split(SubSeq(s, i + Len(sep), Len(s)), sep)

RECURSIVE join(_, _)
join(parts, sep) ==
    IF parts = <<>> THEN <<>>
    ELSE IF Len(parts) = 1 THEN parts[1]
    ELSE parts[1] \o sep \o join(Tail(parts), sep)

isdigit(s) == s # <<>> /\ \A i \in 1..Len(s) : \E d \in 1..10 : s[i] = DigitCh[d]

DigitVal(c) == (CHOOSE d \in 1..10 : DigitCh[d] = c) - 1

RECURSIVE DigitsVal(_)
DigitsVal(s) == IF s = <<>> THEN 0 ELSE 10 * DigitsVal(SubSeq(s, 1, Len(s) - 1)) + DigitVal(s[Len(s)])

\* int(s): surrounding whitespace is ignored; anything but decimal digits raises ValueError
int(s) == IF isdigit(strip(s)) THEN [ok |-> TRUE, value |-> DigitsVal(strip(s))] ELSE [ok |-> FALSE]

RECURSIVE str(_)
str(n) == IF n < 10 THEN <<DigitCh[n + 1]>> ELSE str(n \div 10) \o <<DigitCh[(n % 10) + 1]>>

RECURSIVE zfill(_, _)
zfill(s, width) == IF Len(s) >= width THEN s ELSE zfill(<<"0">> \o s, width)

-----------------------------------------------------------------------------
(* models/subtitle.py: TimeCode *)

\* _parse_time: "00:01:13,933" to milliseconds; a wrong number of fields or a
\* field int() rejects raises ValueError
TimeCode_parse_time(time_str) ==
    LET timedelta(h, m, s, ms) ==
            IF h.ok /\ m.ok /\ s.ok /\ ms.ok
            THEN [ok |-> TRUE,
                  value |-> h.value * 3600000 + m.value * 60000 + s.value * 1000 + ms.value]
            ELSE [ok |-> FALSE]
        seconds_ms(f, g) ==
            IF Len(g) # 2 THEN [ok |-> FALSE]
            ELSE timedelta(int(f[1]), int(f[2]), int(g[1]), int(g[2]))
        fields(f) ==
            IF Len(f) # 3 THEN [ok |-> FALSE] ELSE seconds_ms(f, split(f[3], <<",">>))
    IN  fields(split(time_str, <<":">>))

from_srt_time(time_str) ==
    LET cls(a, b) ==
            IF a.ok /\ b.ok THEN [ok |-> TRUE, value |-> [start |-> a.value, end |-> b.value]]
            ELSE [ok |-> FALSE]
        parts(p) ==
            IF Len(p) # 2 THEN [ok |-> FALSE]
            ELSE cls(TimeCode_parse_time(p[1]), TimeCode_parse_time(p[2]))
    IN  parts(split(time_str, <<" ", "-", "-", ">", " ">>))

\* A format that writes the milliseconds without leading zeros: not what the code does
TimeCode_format_time_unpadded(td) ==
    LET total_seconds == td \div 1000
    IN  zfill(str(total_seconds \div 3600), 2) \o <<":">>
        \o zfill(str((total_seconds % 3600) \div 60), 2) \o <<":">>
        \o zfill(str(total_seconds % 60), 2) \o <<",">> \o str(td % 1000)

TimeCode_format_time(td) ==
    LET total_seconds == td \div 1000
        hours == total_seconds \div 3600
        minutes == (total_seconds % 3600) \div 60
        seconds == total_seconds % 60
        milliseconds == td % 1000
    IN  zfill(str(hours), 2) \o <<":">> \o zfill(str(minutes), 2) \o <<":">>
        \o zfill(str(seconds), 2) \o <<",">> \o zfill(str(milliseconds), 3)

TimeCode_to_srt_format(tc) ==
    TimeCode_format_time(tc.start) \o <<" ", "-", "-", ">", " ">> \o TimeCode_format_time(tc.end)

duration(tc) == tc.end - tc.start

-----------------------------------------------------------------------------
(* models/subtitle.py: SubtitleBlock, SRTDocument.to_srt_format *)

SubtitleBlock(index, time_code, lines, language, is_sdh) ==
    [index |-> index, time_code |-> time_code, lines |-> lines,
     language |-> language, is_sdh |-> is_sdh]

\* "\n".join(self.lines)
text(block) == join(block.lines, <<"\n">>)

RECURSIVE SumLen(_)
SumLen(lines) == IF lines = <<>> THEN 0 ELSE Len(Head(lines)) + SumLen(Tail(lines))

character_count(block) == SumLen(block.lines)

RECURSIVE to_srt_lines(_)
to_srt_lines(blocks) ==
    IF blocks = <<>> THEN <<>>
    ELSE <<str(Head(blocks).index), TimeCode_to_srt_format(Head(blocks).time_code)>>
         \o Head(blocks).lines \o << <<>> >> \o to_srt_lines(Tail(blocks))

to_srt_format(blocks) == join(to_srt_lines(blocks), <<"\n">>)

-----------------------------------------------------------------------------
(* core/parser.py *)

IsDigitAt(s, i) == i <= Len(s) /\ isdigit(<<s[i]>>)

\* \d{2}:\d{2}:\d{2},\d{3} at position i of s
TimeAt(s, i) ==
    /\ i + 11 <= Len(s)
    /\ \A k \in {0, 1, 3, 4, 6, 7, 9, 10, 11} : IsDigitAt(s, i + k)
    /\ s[i + 2] = ":" /\ s[i + 5] = ":" /\ s[i + 8] = ","

RECURSIVE SkipWS(_, _)
SkipWS(s, i) == IF i <= Len(s) /\ s[i] \in WS THEN SkipWS(s, i + 1) ELSE i

\* self.time_pattern.match(s): the pattern matches a prefix of s
time_pattern_match(s) ==
    /\ TimeAt(s, 1)
    /\ LET j == SkipWS(s, 13) IN
       /\ j + 2 <= Len(s) /\ SubSeq(s, j, j + 2) = <<"-", "-", ">">>
       /\ TimeAt(s, SkipWS(s, j + 3))

RECURSIVE SkipEmpty(_, _)
SkipEmpty(lines, i) ==
    IF i <= Len(lines) /\ strip(lines[i]) = <<>> THEN SkipEmpty(lines, i + 1) ELSE i

\* A text loop that ends a block at its first blank line, as SRT readers
\* commonly do: not what _parse_block does
RECURSIVE CollectTextToBlank(_, _, _)
CollectTextToBlank(lines, i, acc) ==
    IF i > Len(lines) \/ strip(lines[i]) = <<>> THEN <<acc, i>>
    ELSE CollectTextToBlank(lines, i + 1, Append(acc, rstrip(lines[i])))

\* the text loop of _parse_block from line i on: <<text_lines, next line>>
RECURSIVE CollectText(_, _, _)
CollectText(lines, i, acc) ==
    IF i > Len(lines) THEN <<acc, i>>
    ELSE IF /\ isdigit(strip(lines[i]))
            /\ i + 1 <= Len(lines)
            /\ time_pattern_match(strip(lines[i + 1]))
         THEN <<acc, i>>
         ELSE CollectText(lines, i + 1, Append(acc, rstrip(lines[i])))

RECURSIVE PopEmpty(_)
PopEmpty(text_lines) ==
    IF text_lines # <<>> /\ strip(text_lines[Len(text_lines)]) = <<>>
    THEN PopEmpty(SubSeq(text_lines, 1, Len(text_lines) - 1))
    ELSE text_lines

\* _parse_block(lines, start_line), positions 1-based: the block (<<block>>, or
\* <<>> for None) and the next line, or an exception
parse_block(lines, start_line) ==
    LET text_part(index, tc, ct, text_lines) ==
            IF ~tc.ok THEN [ok |-> FALSE, error |-> "ValueError"]
            ELSE IF text_lines = <<>> THEN [ok |-> FALSE, error |-> "No subtitle text found"]
            ELSE [ok |-> TRUE, next |-> ct[2],
                  block |-> <<SubtitleBlock(index, tc.value, text_lines, None, FALSE)>>]
        collected(index, tc, ct) == text_part(index, tc, ct, PopEmpty(ct[1]))
        time_part(c1, time_line) ==
            IF ~time_pattern_match(time_line) THEN [ok |-> FALSE, error |-> "Invalid time format"]
            ELSE collected(DigitsVal(strip(lines[c1])), from_srt_time(time_line),
                           CollectText(lines, c1 + 2, <<>>))
        index_part(c1) ==
            IF c1 > Len(lines) THEN [ok |-> TRUE, block |-> <<>>, next |-> c1]
            ELSE IF ~isdigit(strip(lines[c1]))
                 THEN [ok |-> FALSE, error |-> "Expected subtitle index"]
            ELSE IF c1 + 1 > Len(lines)
                 THEN [ok |-> FALSE, error |-> "Unexpected end of file after index"]
            ELSE time_part(c1, strip(lines[c1 + 1]))
    IN  index_part(SkipEmpty(lines, start_line))

RECURSIVE ParseFrom(_, _, _)
ParseFrom(lines, current_line, blocks) ==
    LET step(r) ==
            IF ~r.ok THEN [ok |-> FALSE, error |-> r.error, line_number |-> current_line]
            ELSE ParseFrom(lines, r.next, blocks \o r.block)
    IN  IF current_line > Len(lines) THEN [ok |-> TRUE, blocks |-> blocks]
        ELSE step(parse_block(lines, current_line))

\* _parse_content(content): the blocks, or SRTParseError with its line number
parse_content(content) == ParseFrom(split(strip(content), <<"\n">>), 1, <<>>)

-----------------------------------------------------------------------------
(* core/language_detector.py *)

\* The character classes U+4E00-U+9FFF, U+AC00-U+D7AF, U+3040-U+309F,
\* U+30A0-U+30FF and [a-zA-Z], each over the code points this model writes
chinese_pattern == {"U+4E2D", "U+6587", "U+7684", "U+97F3", "U+4E50"}
korean_pattern == {"U+D55C", "U+AE00", "U+C774"}
hiragana_pattern == {"U+3042", "U+306E"}
katakana_pattern == {"U+30A2", "U+30AB"}
ascii_pattern ==
    {"a", "b", "c", "d", "e", "f", "g", "h", "i", "j", "k", "l", "m",
     "n", "o", "p", "q", "r", "s", "t", "u", "v", "w", "x", "y", "z",
     "A", "B", "C", "D", "E", "F", "G", "H", "I", "J", "K", "L", "M",
     "N", "O", "P", "Q", "R", "S", "T", "U", "V", "W", "X", "Y", "Z"}
chinese_punct ==
    {"U+3002", "U+FF01", "U+FF1F", "U+FF0C", "U+FF1A",
     "U+FF08", "U+FF09", "U+3010", "U+3011", "U+300A", "U+300B"}
korean_punct == chinese_punct
japanese_punct ==
    {"U+3002", "U+FF01", "U+FF1F", "U+3001", "U+FF1A",
     "U+FF08", "U+FF09", "U+3010", "U+3011", "U+300A", "U+300B", "U+3008", "U+3009"}

\* len(pattern.findall(text)) for a one-character class
CountIn(s, class) == Cardinality({i \in 1..Len(s) : s[i] \in class})

count_characters(s) ==
    [chinese |-> CountIn(s, chinese_pattern),
     korean |-> CountIn(s, korean_pattern),
     hiragana |-> CountIn(s, hiragana_pattern),
     katakana |-> CountIn(s, katakana_pattern),
     ascii |-> CountIn(s, ascii_pattern),
     chinese_punct |-> CountIn(s, chinese_punct),
     korean_punct |-> CountIn(s, korean_punct),
     japanese_punct |-> CountIn(s, japanese_punct),
     total_chars |-> Len(s) - CountIn(s, {" "})]

\* The languages in the order the scores dict holds them
Languages == <<"zh", "en", "ko", "ja">>

\* Python's float is IEEE-754 binary64, rounded to nearest, ties to even. A
\* positive float is <<e, h, l>> of value (h * 2^26 + l) * 2^(e - 52) with
\* 2^26 <= h < 2^27 and 0 <= l < 2^26; 0.0 is FloatZero
FloatZero == <<-1000, 0, 0>>

\* The next float up
FloatUp(e, h, l) ==
    IF l + 1 < 2^26 THEN <<e, h, l + 1>>
    ELSE IF h + 1 < 2^27 THEN <<e, h + 1, 0>>
    ELSE <<e + 1, 2^26, 0>>

\* The float nearest to (h * 2^52 + l * 2^26 + g) * 2^(e - 78), 2^26 <= h < 2^27;
\* sticky says that bits under g were cut off
FloatNearest(e, h, l, g, sticky) ==
    IF g > 2^25 \/ (g = 2^25 /\ (sticky \/ l % 2 = 1)) THEN FloatUp(e, h, l)
    ELSE <<e, h, l>>

\* The same for 2^26 <= h < 2^28
float_round(e, h, l, g, sticky) ==
    IF h >= 2^27
    THEN FloatNearest(e + 1, h \div 2, (l \div 2) + (h % 2) * 2^25,
                      (g \div 2) + (l % 2) * 2^25, sticky \/ g % 2 = 1)
    ELSE FloatNearest(e, h, l, g, sticky)

\* n digits, 13 bits each, of r / t after the binary point, and the remainder
RECURSIVE float_digits(_, _, _, _)
float_digits(r, t, n, digits) ==
    IF n = 0 THEN <<digits, r>>
    ELSE CHOOSE d \in {float_digits(x % t, t, n - 1, Append(digits, x \div t)) :
                        x \in {r * 2^13}} : TRUE

\* c / t for integers 0 <= c <= t, 0 < t < 2^12
float_div(c, t) ==
    IF c = 0 THEN FloatZero
    ELSE CHOOSE d \in
            {float_round(-s, 2^26 + q[1][1] * 2^13 + q[1][2], q[1][3] * 2^13 + q[1][4],
                         q[1][5] * 2^13 + q[1][6], q[2] # 0) :
                <<s, q>> \in {<<s, float_digits(c * 2^s - t, t, 6, <<>>)>> :
                                s \in {SetMin({k \in 0..12 : c * 2^k >= t})}}} : TRUE

\* x * 2^k, which is exact
float_scale(x, k) == IF x = FloatZero THEN x ELSE <<x[1] + k, x[2], x[3]>>

float_less(x, y) ==
    \/ x[1] < y[1]
    \/ x[1] = y[1] /\ (x[2] < y[2] \/ (x[2] = y[2] /\ x[3] < y[3]))

\* The limbs A moved q limbs down and then r bits down
FloatShifted(A, q, r) ==
    CHOOSE C \in
        {[i \in 1..4 |-> (B[i] \div 2^r) + (IF i > 1 THEN (B[i - 1] % 2^r) * 2^(26 - r) ELSE 0)] :
            B \in {[i \in 1..4 |-> IF i - q >= 1 THEN A[i - q] ELSE 0]}} : TRUE

\* big + small for floats big >= small > 0
FloatSum(big, small) ==
    IF big[1] - small[1] > 60 THEN big
    ELSE CHOOSE sum \in
            {float_round(big[1],
                         big[2] + C[2] + C[1] * 2^26 + ((big[3] + C[3]) \div 2^26),
                         (big[3] + C[3]) % 2^26, C[4],
                         \/ \E j \in (5 - q)..4 : A[j] # 0
                         \/ \E j \in (5 - q - 1)..(4 - q) : j >= 1 /\ A[j] % 2^r # 0) :
                <<A, q, r, C>> \in
                    {<<A, q, r, FloatShifted(A, q, r)>> :
                        A \in {<<small[2] \div 2^26, small[2] % 2^26, small[3], 0>>},
                        q \in {(big[1] - small[1]) \div 26},
                        r \in {(big[1] - small[1]) % 26}}} : TRUE

\* x + y
float_add(x, y) ==
    IF x = FloatZero THEN y
    ELSE IF y = FloatZero THEN x
    ELSE IF x[1] >= y[1] THEN FloatSum(x, y)
    ELSE FloatSum(y, x)

\* x * 10, as the rounded sum of x * 8 and x * 2
float_mul10(x) == float_add(float_scale(x, 3), float_scale(x, 1))

\* The floats that the literals 0.1 and 0.01 denote
cjk_limit == <<-4, 107374182, 26843546>>
min_threshold == <<-7, 85899345, 61740155>>

\* Each count over max(total_chars, 1)
Ratios(c) ==
    [k \in DOMAIN c |-> float_div(c[k], IF c.total_chars > 1 THEN c.total_chars ELSE 1)]

\* script_ratio * 10 + punct_ratio * 2
Score(script_ratio, punct_ratio) ==
    float_add(float_mul10(script_ratio), float_scale(punct_ratio, 1))

\* The scores from the ratios r; few_cjk says that cjk_ratio < 0.1
Scores(r, few_cjk) ==
    [lang \in {"zh", "en", "ko", "ja"} |->
        IF lang = "en" /\ ~few_cjk THEN float_scale(r.ascii, 1)
        ELSE CHOOSE s \in
                {Score(p[1], p[2]) : p \in
                    {CASE lang = "zh" -> <<r.chinese, r.chinese_punct>>
                       [] lang = "en" -> <<r.ascii, FloatZero>>
                       [] lang = "ko" -> <<r.korean, r.korean_punct>>
                       [] lang = "ja" ->
                            <<float_add(float_add(r.hiragana, r.katakana),
                                        float_scale(r.chinese, -1)),
                              r.japanese_punct>>}} : TRUE]

\* _calculate_language_scores: the score of each language, a float; a score
\* under min_threshold becomes 0.0
calculate_language_scores(char_counts) ==
    CHOOSE scores \in
        {[lang \in {"zh", "en", "ko", "ja"} |->
            IF float_less(s[lang], min_threshold) THEN FloatZero ELSE s[lang]] :
         s \in {Scores(Ratios(c),
                       float_less(float_div(c.chinese + c.korean + c.hiragana + c.katakana,
                                            IF c.total_chars > 1 THEN c.total_chars ELSE 1),
                                  cjk_limit)) :
                c \in {char_counts}}} : TRUE

\* max(scores.keys(), key=...): the first language, in dict order, of maximal score
best_language(scores) ==
    Languages[CHOOSE i \in {SetMin({k \in 1..4 :
                                     \A j \in 1..4 : ~float_less(s[Languages[k]],
                                                                  s[Languages[j]])}) :
                            s \in {scores}} : TRUE]

RECURSIVE BlockTexts(_)
BlockTexts(blocks) == IF blocks = <<>> THEN <<>> ELSE <<text(Head(blocks))>> \o BlockTexts(Tail(blocks))

detect_language(blocks) ==
    IF blocks = <<>> THEN "en"
    ELSE best_language(calculate_language_scores(count_characters(join(BlockTexts(blocks), <<" ">>))))

detect_block_language(block) ==
    IF strip(text(block)) = <<>> THEN "en"
    ELSE best_language(calculate_language_scores(count_characters(text(block))))

detect_line_language(line) ==
    IF strip(line) = <<>> THEN "en"
    ELSE best_language(calculate_language_scores(count_characters(line)))

\* detect_block_languages: every block gets its own detected language
detect_block_languages(blocks) ==
    [i \in 1..Len(blocks) |-> [blocks[i] EXCEPT !.language = detect_block_language(blocks[i])]]

-----------------------------------------------------------------------------
(* models/subtitle.py: ProcessingConfig *)

get_character_limit(cfg, language) ==
    CASE language = "zh" -> IF cfg.sdh_mode THEN 18 ELSE 16
      [] language = "en" -> 42
      [] language = "ko" -> 16
      [] language = "ja" -> IF cfg.sdh_mode THEN 16 ELSE 13
      [] OTHER -> 42

\* chars/second; every limit is a whole number
get_reading_speed_limit(cfg, language) ==
    IF cfg.content_type = "adult"
    THEN CASE language = "zh" -> 9
           [] language = "en" -> 20
           [] language = "ko" -> 12
           [] language = "ja" -> IF cfg.sdh_mode THEN 7 ELSE 4
           [] OTHER -> 20
    ELSE CASE language = "zh" -> 7
           [] language = "en" -> 17
           [] language = "ko" -> 9
           [] language = "ja" -> IF cfg.sdh_mode THEN 7 ELSE 4
           [] OTHER -> 20

\* characters per second as the fraction num / den (den > 0)
get_reading_speed(block) ==
    IF duration(block.time_code) <= 0 THEN [num |-> 0, den |-> 1]
    ELSE [num |-> character_count(block) * 1000, den |-> duration(block.time_code)]

-----------------------------------------------------------------------------
(* models/subtitle.py: SDH detection and removal *)

\* U+266A, U+1F3B5, U+1F3B6: the music glyphs
music_glyphs == {"U+266A", "U+1F3B5", "U+1F3B6"}

\* the delimiters of audio_description_patterns (is_sdh_only_block, whole text)
audio_description_pairs ==
    {<<"[", "]">>, <<"(", ")">>, <<"U+FF08", "U+FF09">>, <<"U+3010", "U+3011">>,
     <<"U+300A", "U+300B">>, <<"U+FF3B", "U+FF3D">>, <<"U+3014", "U+3015">>,
     <<"U+3008", "U+3009">>}

\* the delimiters of the per-line re.sub of is_sdh_only_block
line_audio_pairs ==
    {<<"[", "]">>, <<"(", ")">>, <<"U+3010", "U+3011">>, <<"U+300A", "U+300B">>}

\* sdh_patterns of _remove_sdh_from_line, in order: <<open, close>> or <<glyph>>
sdh_patterns ==
    << <<"[", "]">>, <<"(", ")">>, <<"U+FF08", "U+FF09">>, <<"U+3010", "U+3011">>,
       <<"U+300A", "U+300B">>, <<"U+266A">>, <<"U+1F3B5">>, <<"U+1F3B6">>,
       <<"U+FF3B", "U+FF3D">>, <<"U+3014", "U+3015">>, <<"U+3008", "U+3009">>,
       <<"U+300C", "U+300D">> >>

\* re.sub(glyph+, "", s) for every glyph of the set
RemoveChars(s, set) == SelectSeq(s, LAMBDA c : c \notin set)

\* re.match(^open\s*.*?\s*close$, s): "." matches no newline
MatchWholeSpan(s, pair) ==
    /\ Len(s) >= 2 /\ s[1] = pair[1] /\ s[Len(s)] = pair[2]
    /\ find(strip(SubSeq(s, 2, Len(s) - 1)), <<"\n">>) = 0

\* The position where the span opening at position i of s closes: that of the
\* first closing delimiter after i, with no line break before it unless
\* dotall; 0 when position i opens no span
CloseAt(s, i, pairs, dotall) ==
    LET closer(mine) ==
            IF mine = {} THEN 0
            ELSE find(SubSeq(s, i + 1, Len(s)), <<(CHOOSE p \in mine : TRUE)[2]>>)
        valid(j, nl) == IF j = 0 \/ (~dotall /\ nl # 0 /\ nl < j) THEN 0 ELSE i + j
    IN  valid(closer({p \in pairs : p[1] = s[i]}), find(SubSeq(s, i + 1, Len(s)), <<"\n">>))

\* re.sub of an alternation of open.*?close over the pairs, or (dotall) of
\* open[^close]*close for one pair: left to right, a span runs from an opening
\* delimiter to the first closing one after it
RECURSIVE SubSpans(_, _, _)
SubSpans(s, pairs, dotall) ==
    LET cut(i) == SubSeq(s, 1, i - 1)
                  \o SubSpans(SubSeq(s, CloseAt(s, i, pairs, dotall) + 1, Len(s)), pairs, dotall)
        first(opens) == IF opens = {} THEN s ELSE cut(SetMin(opens))
    IN  first({i \in 1..Len(s) : CloseAt(s, i, pairs, dotall) # 0})

\* re.sub(^-\s*, repl, s)
SubLeadingDash(s, repl) ==
    IF s # <<>> /\ Head(s) = "-" THEN repl \o lstrip(Tail(s)) ELSE s

is_sdh_only_block(block) ==
    LET full_text == strip(text(block))
        pure(line) ==
            strip(SubLeadingDash(SubSpans(RemoveChars(strip(line), music_glyphs),
                                          line_audio_pairs, FALSE), <<>>)) = <<>>
    IN  IF block.lines = <<>> \/ full_text = <<>> THEN FALSE
        ELSE IF \E g \in music_glyphs : RemoveChars(full_text, {g}) = <<>> THEN TRUE
        ELSE IF \E p \in audio_description_pairs : MatchWholeSpan(full_text, p) THEN TRUE
        ELSE \A i \in 1..Len(block.lines) : pure(block.lines[i])

\* re.sub(\s+, " ", s): a run of white space becomes one space
SqueezeWS(s) ==
    LET kept(idx) == [k \in 1..Len(idx) |-> IF s[idx[k]] \in WS THEN " " ELSE s[idx[k]]]
    IN  kept(SelectSeq([i \in 1..Len(s) |-> i],
                       LAMBDA i : s[i] \notin WS \/ i = 1 \/ s[i - 1] \notin WS))

clean_whitespace(txt) ==
    LET a == SqueezeWS(txt)
        b == SubLeadingDash(a, <<"-", " ">>)
        \* re.sub(^-\s*-\s*, "- ", b)
        c == IF b # <<>> /\ Head(b) = "-" /\ lstrip(Tail(b)) # <<>> /\ Head(lstrip(Tail(b))) = "-"
             THEN <<"-", " ">> \o lstrip(Tail(lstrip(Tail(b))))
             ELSE b
        cleaned == strip(c)
    IN  IF cleaned = <<"-">> THEN <<>> ELSE cleaned

RECURSIVE ApplyPatterns(_, _)
ApplyPatterns(s, patterns) ==
    IF patterns = <<>> THEN s
    ELSE ApplyPatterns(IF Len(Head(patterns)) = 1 THEN RemoveChars(s, {Head(patterns)[1]})
                       ELSE SubSpans(s, {Head(patterns)}, TRUE),
                       Tail(patterns))

remove_sdh_from_line(line) == clean_whitespace(ApplyPatterns(line, sdh_patterns))

RECURSIVE CleanLines(_)
CleanLines(lines) ==
    IF lines = <<>> THEN <<>>
    ELSE LET original_line == strip(Head(lines))
             cleaned_line == remove_sdh_from_line(original_line)
         IN  (IF original_line # <<>> /\ strip(cleaned_line) # <<>> THEN <<cleaned_line>> ELSE <<>>)
             \o CleanLines(Tail(lines))

clean_sdh_markers(block) == [block EXCEPT !.lines = CleanLines(block.lines)]

\* Blocks that keep the indices they came with: not what the code does
KeepIndices(blocks) == blocks

\* for i, block in enumerate(blocks): block.index = i + 1
Reindex(blocks) == [i \in 1..Len(blocks) |-> [blocks[i] EXCEPT !.index = i]]

\* The document remove_sdh_only_blocks returns
remove_sdh_only_blocks(blocks) ==
    Reindex(SelectSeq(blocks, LAMBDA b : ~is_sdh_only_block(b)))

\* The source document after remove_sdh_only_blocks: the blocks it keeps are
\* the source's block objects, so their index assignment shows in the source
source_after_remove_sdh_only_blocks(blocks) ==
    [i \in 1..Len(blocks) |->
        IF is_sdh_only_block(blocks[i]) THEN blocks[i]
        ELSE [blocks[i] EXCEPT !.index =
                 Cardinality({k \in 1..i : ~is_sdh_only_block(blocks[k])})]]

\* A cleaning loop without the test "if cleaned_block.lines and any(...)":
\* not what the code does
RECURSIVE CleanedBlocksKeepEmpty(_)
CleanedBlocksKeepEmpty(blocks) ==
    IF blocks = <<>> THEN <<>>
    ELSE (IF ~is_sdh_only_block(Head(blocks)) THEN <<clean_sdh_markers(Head(blocks))>> ELSE <<>>)
         \o CleanedBlocksKeepEmpty(Tail(blocks))

RECURSIVE CleanedBlocks(_)
CleanedBlocks(blocks) ==
    IF blocks = <<>> THEN <<>>
    ELSE LET cleaned_block == clean_sdh_markers(Head(blocks))
         IN  (IF /\ ~is_sdh_only_block(Head(blocks))
                 /\ cleaned_block.lines # <<>>
                 /\ \E i \in 1..Len(cleaned_block.lines) : strip(cleaned_block.lines[i]) # <<>>
              THEN <<cleaned_block>> ELSE <<>>)
             \o CleanedBlocks(Tail(blocks))

\* The document remove_sdh_blocks_and_clean_content returns (clean_sdh_markers
\* makes new blocks: the source keeps its indices)
remove_sdh_blocks_and_clean_content(blocks) == Reindex(CleanedBlocks(blocks))

-----------------------------------------------------------------------------
(* processors/*.py: validate_reading_speed (the same in the three engines) *)

\* actual_speed <= speed_limit, the limit being that of config.language
validate_reading_speed(cfg, block) ==
    IF cfg.no_speed_check THEN TRUE
    ELSE LET actual_speed == get_reading_speed(block)
             speed_limit == get_reading_speed_limit(cfg, cfg.language)
         IN  actual_speed.num <= speed_limit * actual_speed.den

-----------------------------------------------------------------------------
(* Further str primitives *)

SetMax(S) == CHOOSE x \in S : \A y \in S : y <= x

startswith(s, prefix) == Len(s) >= Len(prefix) /\ SubSeq(s, 1, Len(prefix)) = prefix

endswith(s, suffix) == Len(s) >= Len(suffix) /\ SubSeq(s, Len(s) - Len(suffix) + 1, Len(s)) = suffix

\* s[:p] and s[p:] for a 0-based position p of Python
slice_to(s, p) == SubSeq(s, 1, IF p < Len(s) THEN p ELSE Len(s))
slice_from(s, p) == SubSeq(s, p + 1, Len(s))

UpperCh == <<"A", "B", "C", "D", "E", "F", "G", "H", "I", "J", "K", "L", "M",
             "N", "O", "P", "Q", "R", "S", "T", "U", "V", "W", "X", "Y", "Z">>
LowerCh == <<"a", "b", "c", "d", "e", "f", "g", "h", "i", "j", "k", "l", "m",
             "n", "o", "p", "q", "r", "s", "t", "u", "v", "w", "x", "y", "z">>

\* s.lower(), over the code points this model writes
lower(s) ==
    [i \in 1..Len(s) |->
        IF \E k \in 1..26 : UpperCh[k] = s[i]
        THEN LowerCh[CHOOSE k \in 1..26 : UpperCh[k] = s[i]]
        ELSE s[i]]

\* s.strip(chars)
strip_chars(s, chars) ==
    LET cut(keep) == IF keep = {} THEN <<>> ELSE SubSeq(s, SetMin(keep), SetMax(keep))
    IN  cut({i \in 1..Len(s) : s[i] \notin chars})

\* s.split(): the maximal runs of characters that are not whitespace, in order
split_ws(s) ==
    LET stop(i) == SetMin({j \in i..Len(s) : j = Len(s) \/ s[j + 1] \in WS})
        runs(starts) == [k \in 1..Len(starts) |-> SubSeq(s, starts[k], stop(starts[k]))]
    IN  runs(SelectSeq([i \in 1..Len(s) |-> i],
                       LAMBDA i : s[i] \notin WS /\ (i = 1 \/ s[i - 1] \in WS)))

-----------------------------------------------------------------------------
(* processors/chinese.py: ChineseProcessor *)

Chinese_punctuation ==
    {"U+3002", "U+FF01", "U+FF1F", "U+FF0C", "U+FF1A", "U+FF1B", "'", "U+FF08", "U+FF09",
     "U+3010", "U+3011", "U+300A", "U+300B"}
Chinese_helper_words ==
    {"U+4E86", "U+5417", "U+5427", "U+5440", "U+5462", "U+54C7", "U+54E6", "U+554A", "U+55EF",
     "U+561B", "U+5730", "U+5F97", "U+7684"}
Chinese_sentence_endings == {"U+3002", "U+FF01", "U+FF1F"}

\* dialogue_pattern ^-\s*(.*)$ on a stripped line: the content after the dash,
\* made "- content"; a line the pattern does not match is kept
dialogue_line(line) ==
    IF Head(line) = "-" /\ \A i \in 1..Len(strip(Tail(line))) : strip(Tail(line))[i] # "\n"
    THEN <<"-", " ">> \o strip(Tail(line))
    ELSE line

\* _process_dialogue_format is the same method in the three engines
process_dialogue_format(lines) ==
    LET kept == SelectSeq([i \in 1..Len(lines) |-> strip(lines[i])], LAMBDA l : l # <<>>)
    IN  [i \in 1..Len(kept) |-> dialogue_line(kept[i])]

Chinese_should_merge_with_current(cfg, current, next_line) ==
    IF current = <<>> THEN FALSE
    ELSE IF current[Len(current)] \in Chinese_sentence_endings THEN FALSE
    ELSE IF startswith(current, <<"-", " ">>) # startswith(next_line, <<"-", " ">>) THEN FALSE
    ELSE Len(current) + Len(next_line) <= get_character_limit(cfg, cfg.language)

\* the loop of _smart_merge_lines from line i on
RECURSIVE Chinese_MergeFrom(_, _, _, _, _)
Chinese_MergeFrom(cfg, lines, i, current_line, merged_lines) ==
    IF i > Len(lines)
    THEN IF current_line # <<>> THEN Append(merged_lines, current_line) ELSE merged_lines
    ELSE IF strip(lines[i]) = <<>>
    THEN Chinese_MergeFrom(cfg, lines, i + 1, current_line, merged_lines)
    ELSE IF Chinese_should_merge_with_current(cfg, current_line, strip(lines[i]))
    THEN Chinese_MergeFrom(cfg, lines, i + 1, current_line \o strip(lines[i]), merged_lines)
    ELSE Chinese_MergeFrom(cfg, lines, i + 1, strip(lines[i]),
                           IF current_line # <<>> THEN Append(merged_lines, current_line)
                           ELSE merged_lines)

Chinese_smart_merge_lines(cfg, lines) ==
    IF Len(lines) <= 1 THEN lines ELSE Chinese_MergeFrom(cfg, lines, 1, <<>>, <<>>)

\* A search that takes every character of the window, also one past the
\* limit: not what the code does
Chinese_find_best_break_position_whole_window(line, limit) ==
    LET search_start == IF limit - 10 > 0 THEN limit - 10 ELSE 0
        search_end == IF Len(line) < limit + 3 THEN Len(line) ELSE limit + 3
        range == {i \in search_start..(search_end - 1) : i < Len(line)}
        helper == {i \in range : line[i + 1] \in Chinese_helper_words}
        punct == {i \in range : line[i + 1] \in Chinese_punctuation}
        space == {i \in range : line[i + 1] = " "}
    IN  IF helper # {} THEN SetMax(helper) + 1
        ELSE IF punct # {} THEN SetMax(punct) + 1
        ELSE IF space # {} THEN SetMax(space)
        ELSE -1

\* The position after which to break, 0-based as in the code; -1 when none
Chinese_find_best_break_position(line, limit) ==
    LET search_start == IF limit - 10 > 0 THEN limit - 10 ELSE 0
        search_end == IF Len(line) < limit + 3 THEN Len(line) ELSE limit + 3
        range == {i \in search_start..(search_end - 1) : i < Len(line)}
        helper == {i \in range : line[i + 1] \in Chinese_helper_words /\ i + 1 <= limit}
        punct == {i \in range : line[i + 1] \in Chinese_punctuation /\ i + 1 <= limit}
        space == {i \in range : line[i + 1] = " " /\ i <= limit}
    IN  IF helper # {} THEN SetMax(helper) + 1
        ELSE IF punct # {} THEN SetMax(punct) + 1
        ELSE IF space # {} THEN SetMax(space)
        ELSE -1

\* A call that cuts every over-limit line at the limit: not what the code does
Chinese_BreakCall_no_threshold(cfg, line) ==
    LET char_limit == get_character_limit(cfg, cfg.language)
    IN  IF Len(line) <= char_limit THEN [split |-> FALSE]
        ELSE [split |-> TRUE, first_part |-> rstrip(slice_to(line, char_limit)),
              second_part |-> lstrip(slice_from(line, char_limit)),
              recurse |-> lstrip(slice_from(line, char_limit)) # <<>>]

\* One call of _break_line_intelligently up to its recursive call: whether the
\* line is split, the two parts, and whether the call recurses on the second
Chinese_BreakCall(cfg, line) ==
    LET char_limit == get_character_limit(cfg, cfg.language)
        parts(first_part, second_part) ==
            IF Len(second_part) < 5
            THEN [split |-> FALSE]
            ELSE [split |-> TRUE, first_part |-> first_part, second_part |-> second_part,
                  recurse |-> second_part # <<>> /\ Len(second_part) < Len(line)]
        cut(break_pos) ==
            With(<<rstrip(slice_to(line, break_pos)), lstrip(slice_from(line, break_pos))>>,
                 LAMBDA p : parts(p[1], p[2]))
        at(best) == cut(IF best = -1 THEN char_limit ELSE best)
    IN  IF Len(line) <= char_limit THEN [split |-> FALSE]
        ELSE IF Len(line) - char_limit < 3 THEN [split |-> FALSE]
        ELSE With(Chinese_find_best_break_position(line, char_limit), at)

\* A call that keeps the first part only: not what the code does
Chinese_break_line_first_part_only(cfg, line) ==
    CHOOSE r \in {IF call.split THEN <<call.first_part>> ELSE <<line>> :
                    call \in {Chinese_BreakCall(cfg, line)}} : TRUE

RECURSIVE Chinese_break_line_intelligently(_, _)
Chinese_break_line_intelligently(cfg, line) ==
    LET result(call) ==
            IF ~call.split THEN <<line>>
            ELSE IF call.recurse
            THEN <<call.first_part>> \o Chinese_break_line_intelligently(cfg, call.second_part)
            ELSE <<call.first_part>>
    IN  With(Chinese_BreakCall(cfg, line), result)

RECURSIVE Chinese_apply_line_breaking(_, _)
Chinese_apply_line_breaking(cfg, lines) ==
    IF lines = <<>> THEN <<>>
    ELSE (IF strip(Head(lines)) = <<>> THEN <<>>
          ELSE Chinese_break_line_intelligently(cfg, Head(lines)))
         \o Chinese_apply_line_breaking(cfg, Tail(lines))

Chinese_continuation_indicators ==
    {<<"U+FF0C">>, <<"U+3001">>, <<"U+548C">>, <<"U+6216">>, <<"U+4F46">>, <<"U+800C">>,
     <<"U+56E0", "U+4E3A">>, <<"U+6240", "U+4EE5">>, <<"U+5982", "U+679C">>,
     <<"U+90A3", "U+4E48">>}

Chinese_is_line_continuation(l) ==
    LET line == strip(l)
        last_word(words) == words # <<>> /\ words[Len(words)] \in Chinese_continuation_indicators
    IN  IF line = <<>> THEN FALSE
        ELSE IF line[Len(line)] \in {"U+FF0C", "U+3001"} THEN TRUE
        ELSE IF last_word(split_ws(line)) THEN TRUE
        ELSE Len(line) < 8

Chinese_add_missing_punctuation(lines) ==
    IF lines = <<>> THEN lines
    ELSE LET last_line == strip(lines[Len(lines)])
         IN  IF /\ last_line # <<>>
                /\ last_line[Len(last_line)] \notin Chinese_punctuation
                /\ ~endswith(last_line, <<".", ".", ".">>)
                /\ ~startswith(last_line, <<"U+266A">>)
                /\ ~endswith(last_line, <<"U+FF0C">>)
                /\ ~Chinese_is_line_continuation(last_line)
             THEN [lines EXCEPT ![Len(lines)] = last_line \o <<"U+3002">>]
             ELSE lines

\* process_block: the block with its lines rewritten
Chinese_process_block(cfg, block) ==
    LET punctuated(lines) ==
            IF ~cfg.no_punct_fix THEN Chinese_add_missing_punctuation(lines) ELSE lines
        merged(lines) == IF Len(lines) > 1 THEN Chinese_smart_merge_lines(cfg, lines) ELSE lines
    IN  IF block.lines = <<>> THEN block
        ELSE [block EXCEPT !.lines =
                punctuated(Chinese_apply_line_breaking(cfg,
                    merged(process_dialogue_format(block.lines))))]

-----------------------------------------------------------------------------
(* processors/english.py: EnglishProcessor *)

English_conjunctions ==
    {<<"a", "l", "t", "h", "o", "u", "g", "h">>, <<"a", "n", "d">>,
     <<"b", "e", "c", "a", "u", "s", "e">>, <<"b", "u", "t">>, <<"f", "o", "r">>,
     <<"f", "u", "r", "t", "h", "e", "r", "m", "o", "r", "e">>,
     <<"h", "o", "w", "e", "v", "e", "r">>, <<"m", "o", "r", "e", "o", "v", "e", "r">>,
     <<"n", "e", "v", "e", "r", "t", "h", "e", "l", "e", "s", "s">>,
     <<"n", "o", "n", "e", "t", "h", "e", "l", "e", "s", "s">>, <<"n", "o", "r">>,
     <<"o", "r">>, <<"s", "i", "n", "c", "e">>, <<"s", "o">>,
     <<"t", "h", "e", "r", "e", "f", "o", "r", "e">>, <<"t", "h", "o", "u", "g", "h">>,
     <<"w", "h", "e", "r", "e", "a", "s">>, <<"w", "h", "i", "l", "e">>, <<"y", "e", "t">>}
English_prepositions ==
    {<<"a", "b", "o", "u", "t">>, <<"a", "b", "o", "v", "e">>, <<"a", "c", "r", "o", "s", "s">>,
     <<"a", "f", "t", "e", "r">>, <<"a", "m", "o", "n", "g">>, <<"a", "r", "o", "u", "n", "d">>,
     <<"a", "t">>, <<"b", "e", "f", "o", "r", "e">>, <<"b", "e", "h", "i", "n", "d">>,
     <<"b", "e", "l", "o", "w">>, <<"b", "e", "s", "i", "d", "e">>,
     <<"b", "e", "t", "w", "e", "e", "n">>, <<"b", "y">>, <<"d", "u", "r", "i", "n", "g">>,
     <<"f", "o", "r">>, <<"f", "r", "o", "m">>, <<"i", "n">>, <<"o", "f">>, <<"o", "n">>,
     <<"o", "v", "e", "r">>, <<"t", "h", "r", "o", "u", "g", "h">>, <<"t", "o">>,
     <<"u", "n", "d", "e", "r">>, <<"w", "i", "t", "h">>}
English_sentence_endings == {".", "!", "?"}
English_punctuation ==
    {".", ",", "!", "?", ";", ":", "\"", "\\", "'", "(", ")", "[", "]", "{", "}", "U+2014",
     "U+2013", "-"}
English_connecting_words ==
    {<<"a">>, <<"a", "n">>, <<"t", "h", "e">>, <<"o", "f">>, <<"i", "n">>, <<"o", "n">>,
     <<"a", "t">>, <<"t", "o">>, <<"f", "o", "r">>, <<"w", "i", "t", "h">>, <<"b", "y">>,
     <<"a", "n", "d">>, <<"o", "r">>, <<"b", "u", "t">>}

English_should_merge_with_current(cfg, current, next_line) ==
    LET fits == Len(current) + 1 + Len(next_line) <= get_character_limit(cfg, cfg.language)
        last_word(words) == words # <<>> /\ lower(words[Len(words)]) \in English_connecting_words
    IN  IF current = <<>> THEN FALSE
        ELSE IF current[Len(current)] \in English_sentence_endings THEN FALSE
        ELSE IF startswith(current, <<"-", " ">>) /\ startswith(next_line, <<"-", " ">>) THEN FALSE
        ELSE IF Len(strip(current)) < 25 \/ Len(strip(next_line)) < 25 THEN fits
        ELSE IF endswith(rstrip(current), <<".">>) /\ Len(strip(next_line)) < 20 THEN fits
        ELSE IF last_word(split_ws(strip(current))) THEN fits
        ELSE fits

\* the loop of _smart_merge_lines from line i on
RECURSIVE English_MergeFrom(_, _, _, _, _)
English_MergeFrom(cfg, lines, i, current_line, merged_lines) ==
    LET line == strip(lines[i])
        flushed == IF current_line # <<>> THEN Append(merged_lines, current_line) ELSE merged_lines
    IN  IF i > Len(lines) THEN flushed
        ELSE IF line = <<>> THEN English_MergeFrom(cfg, lines, i + 1, current_line, merged_lines)
        ELSE IF English_should_merge_with_current(cfg, current_line, line)
        THEN IF current_line = <<>>
             THEN English_MergeFrom(cfg, lines, i + 1, line, merged_lines)
             ELSE IF startswith(line, <<"-", " ">>)
             THEN English_MergeFrom(cfg, lines, i + 1, line, Append(merged_lines, current_line))
             ELSE English_MergeFrom(cfg, lines, i + 1, current_line \o <<" ">> \o line, merged_lines)
        ELSE English_MergeFrom(cfg, lines, i + 1, line, flushed)

English_smart_merge_lines(cfg, lines) ==
    IF Len(lines) <= 1 THEN lines ELSE English_MergeFrom(cfg, lines, 1, <<>>, <<>>)

\* line.lower().find(clean_word) of the first word of words_before_limit that is
\* in the word set and whose position lies in the search window; -1 when none
English_WordBreak(line, limit, search_start, search_end, word_set) ==
    LET first(pos) ==
            With({k \in 1..Len(pos) : pos[k] # -1 /\ search_start <= pos[k] /\ pos[k] <= search_end},
                 LAMBDA hits : IF hits = {} THEN -1 ELSE pos[SetMin(hits)])
        search(lowered) ==
            LET word_pos(clean_word) ==
                    IF clean_word \in word_set THEN find(lowered, clean_word) - 1 ELSE -1
                clean(word) == With(strip_chars(word, English_punctuation), word_pos)
                positions(words) ==
                    With([k \in 1..Len(words) |-> With(lower(words[k]), clean)], first)
            IN  With(slice_to(line, limit), LAMBDA head : With(split_ws(head), positions))
    IN  With(lower(line), search)

English_find_best_break_position(line, limit) ==
    LET search_start == IF limit - 20 > 0 THEN limit - 20 ELSE 0
        search_end == IF Len(line) < limit THEN Len(line) ELSE limit
        punct == {i \in search_start..(search_end - 1) :
                    i < Len(line) /\ line[i + 1] \in {".", ",", "!", "?", ";", ":"}}
        then(conj) ==
            IF conj # -1 THEN conj
            ELSE English_WordBreak(line, limit, search_start, search_end, English_prepositions)
    IN  IF punct # {} THEN SetMax(punct) + 1
        ELSE With(English_WordBreak(line, limit, search_start, search_end, English_conjunctions),
                  then)

English_find_word_boundary_break(line, limit) ==
    LET search_start == IF limit - 15 > 0 THEN limit - 15 ELSE 0
        search_end == IF Len(line) < limit + 5 THEN Len(line) ELSE limit + 5
        space == {i \in search_start..(search_end - 1) : i < Len(line) /\ line[i + 1] = " "}
    IN  IF space # {} THEN SetMax(space) ELSE -1

English_should_break_line(line, char_limit) ==
    LET word_count(stripped) == With(stripped, LAMBDA t : Len(split_ws(t)))
        second(second_part) == Len(second_part) >= 20 /\ word_count(second_part) >= 3
        at(break_pos) ==
            IF break_pos > 0 THEN With(strip(slice_from(line, break_pos)), second) ELSE FALSE
        remaining(remaining_text) ==
            IF remaining_text = <<>> THEN FALSE
            ELSE IF word_count(remaining_text) < 4 THEN FALSE
            ELSE With(English_find_best_break_position(line, char_limit), at)
    IN  IF Len(line) <= char_limit THEN FALSE
        ELSE With(strip(slice_from(line, char_limit)), remaining)

\* A call that recurses on its whole line: not what the code does
English_BreakCall_whole_line(cfg, line) ==
    IF Len(line) <= get_character_limit(cfg, cfg.language) THEN [split |-> FALSE]
    ELSE [split |-> TRUE, first_part |-> slice_to(line, get_character_limit(cfg, cfg.language)),
          second_part |-> line, recurse |-> TRUE]

\* One call of _break_line_intelligently up to its recursive call
English_BreakCall(cfg, line) ==
    LET char_limit == get_character_limit(cfg, cfg.language)
        parts(first_part, second_part) ==
            [split |-> TRUE, first_part |-> first_part, second_part |-> second_part,
             recurse |-> second_part # <<>> /\ Len(second_part) < Len(line)]
        cut(break_pos) ==
            With(<<rstrip(slice_to(line, break_pos)), lstrip(slice_from(line, break_pos))>>,
                 LAMBDA p : parts(p[1], p[2]))
        forced(boundary) == cut(IF boundary = -1 THEN char_limit ELSE boundary)
        at(best) ==
            IF best = -1 THEN With(English_find_word_boundary_break(line, char_limit), forced)
            ELSE cut(best)
    IN  IF Len(line) <= char_limit THEN [split |-> FALSE]
        ELSE IF ~English_should_break_line(line, char_limit) THEN [split |-> FALSE]
        ELSE With(English_find_best_break_position(line, char_limit), at)

RECURSIVE English_break_line_intelligently(_, _)
English_break_line_intelligently(cfg, line) ==
    LET result(call) ==
            IF ~call.split THEN <<line>>
            ELSE IF call.recurse
            THEN <<call.first_part>> \o English_break_line_intelligently(cfg, call.second_part)
            ELSE <<call.first_part>>
    IN  With(English_BreakCall(cfg, line), result)

RECURSIVE English_apply_line_breaking(_, _)
English_apply_line_breaking(cfg, lines) ==
    IF lines = <<>> THEN <<>>
    ELSE (IF strip(Head(lines)) = <<>> THEN <<>>
          ELSE English_break_line_intelligently(cfg, Head(lines)))
         \o English_apply_line_breaking(cfg, Tail(lines))

\* The line _merge_short_lines makes of two neighbours; <<>> stands for None
English_MergedShort(current_line, next_line) ==
    LET current_is_dialogue == startswith(current_line, <<"-", " ">>)
        next_is_dialogue == startswith(next_line, <<"-", " ">>)
        should_merge == (Len(next_line) < 20 \/ Len(current_line) < 25)
                        /\ ~(current_is_dialogue /\ next_is_dialogue)
    IN  IF ~should_merge THEN <<>>
        ELSE IF current_is_dialogue /\ ~next_is_dialogue
        THEN <<"-", " ">> \o strip(slice_from(current_line, 2)) \o <<" ">> \o next_line
        ELSE IF ~current_is_dialogue /\ next_is_dialogue THEN <<>>
        ELSE current_line \o <<" ">> \o next_line

\* the loop of _merge_short_lines from line i on
RECURSIVE English_MergeShortFrom(_, _, _, _)
English_MergeShortFrom(cfg, lines, i, result) ==
    LET try(merged) ==
            IF merged # <<>> /\ Len(merged) <= get_character_limit(cfg, cfg.language)
            THEN English_MergeShortFrom(cfg, lines, i + 2, Append(result, merged))
            ELSE English_MergeShortFrom(cfg, lines, i + 1, Append(result, lines[i]))
    IN  IF i > Len(lines) THEN result
        ELSE IF strip(lines[i]) = <<>>
        THEN English_MergeShortFrom(cfg, lines, i + 1, Append(result, lines[i]))
        ELSE IF i + 1 <= Len(lines) /\ strip(lines[i + 1]) # <<>>
        THEN try(English_MergedShort(strip(lines[i]), strip(lines[i + 1])))
        ELSE English_MergeShortFrom(cfg, lines, i + 1, Append(result, lines[i]))

English_merge_short_lines(cfg, lines) ==
    IF Len(lines) <= 1 THEN lines ELSE English_MergeShortFrom(cfg, lines, 1, <<>>)

English_process_block(cfg, block) ==
    LET merged(lines) == IF Len(lines) > 1 THEN English_smart_merge_lines(cfg, lines) ELSE lines
    IN  IF block.lines = <<>> THEN block
        ELSE [block EXCEPT !.lines =
                English_merge_short_lines(cfg, English_apply_line_breaking(cfg,
                    merged(process_dialogue_format(block.lines))))]

-----------------------------------------------------------------------------
(* processors/korean.py: KoreanProcessor *)

Korean_punctuation ==
    {"U+3002", "U+FF01", "U+FF1F", "U+FF0C", "U+FF1A", "U+FF1B", "'", "U+FF08", "U+FF09",
     "U+3010", "U+3011", "U+300A", "U+300B"}
Korean_helper_particles ==
    {<<"U+AC00">>, <<"U+AC00", "U+C9C0", "U+ACE0">>, <<"U+ACE0">>, <<"U+ACFC">>, <<"U+AE4C">>,
     <<"U+AE4C", "U+C9C0">>, <<"U+B124">>, <<"U+B294">>, <<"U+B2C8">>, <<"U+B2E4">>,
     <<"U+B3C4">>, <<"U+B54C", "U+BB38", "U+C5D0">>, <<"U+B824", "U+ACE0">>, <<"U+B85C">>,
     <<"U+B97C">>, <<"U+B9CC">>, <<"U+BA74">>, <<"U+BCF4", "U+B2E4">>, <<"U+BD80", "U+D130">>,
     <<"U+C11C">>, <<"U+C544">>, <<"U+C57C">>, <<"U+C5B4">>, <<"U+C5D0">>,
     <<"U+C5D0", "U+C11C">>, <<"U+C640">>, <<"U+C694">>, <<"U+C73C", "U+B85C">>, <<"U+C740">>,
     <<"U+C744">>, <<"U+C758">>, <<"U+C774">>, <<"U+C8E0">>, <<"U+C9C0">>,
     <<"U+CC98", "U+B7FC">>, <<"U+D558", "U+ACE0">>}
Korean_sentence_endings == {"U+3002", "U+FF01", "U+FF1F"}
Korean_connectors ==
    {<<"U+ACE0">>, <<"U+C11C">>, <<"U+BA74">>, <<"U+BA70">>, <<"U+B294", "U+B370">>,
     <<"U+C9C0", "U+B9CC">>, <<"U+D558", "U+ACE0">>}
Korean_continuation_endings ==
    {<<"U+ACE0">>, <<"U+C11C">>, <<"U+BA74">>, <<"U+BA70">>, <<"U+B294", "U+B370">>,
     <<"U+C9C0", "U+B9CC">>, <<"U+D558", "U+ACE0">>, <<"U+AC00", "U+C9C0", "U+ACE0">>,
     <<"U+B54C", "U+BB38", "U+C5D0">>, <<"U+D558", "U+BA74", "U+C11C">>,
     <<"U+B2E4", "U+AC00">>, <<"U+C73C", "U+BA74", "U+C11C">>, <<"U+C73C", "U+B2C8", "U+AE4C">>,
     <<"U+B2C8", "U+AE4C">>, <<"U+D558", "U+C5EC">>, <<"U+D574", "U+C11C">>,
     <<"U+C5D0", "U+C11C">>, <<"U+C73C", "U+B85C">>, <<"U+B85C">>, <<"U+C640">>, <<"U+ACFC">>}

Korean_should_merge_with_current(cfg, current, next_line) ==
    IF current = <<>> THEN FALSE
    ELSE IF current[Len(current)] \in Korean_sentence_endings THEN FALSE
    ELSE IF startswith(current, <<"-", " ">>) # startswith(next_line, <<"-", " ">>) THEN FALSE
    ELSE Len(current) + 1 + Len(next_line) <= get_character_limit(cfg, cfg.language)

\* the loop of _smart_merge_lines from line i on
RECURSIVE Korean_MergeFrom(_, _, _, _, _)
Korean_MergeFrom(cfg, lines, i, current_line, merged_lines) ==
    IF i > Len(lines)
    THEN IF current_line # <<>> THEN Append(merged_lines, current_line) ELSE merged_lines
    ELSE IF strip(lines[i]) = <<>>
    THEN Korean_MergeFrom(cfg, lines, i + 1, current_line, merged_lines)
    ELSE IF Korean_should_merge_with_current(cfg, current_line, strip(lines[i]))
    THEN Korean_MergeFrom(cfg, lines, i + 1, current_line \o <<" ">> \o strip(lines[i]),
                          merged_lines)
    ELSE Korean_MergeFrom(cfg, lines, i + 1, strip(lines[i]),
                          IF current_line # <<>> THEN Append(merged_lines, current_line)
                          ELSE merged_lines)

Korean_smart_merge_lines(cfg, lines) ==
    IF Len(lines) <= 1 THEN lines ELSE Korean_MergeFrom(cfg, lines, 1, <<>>, <<>>)

\* The search with the particles looked for before the spaces: not what the
\* code does
Korean_find_best_break_position_particles_first(line, limit) ==
    LET search_start == IF limit - 8 > 0 THEN limit - 8 ELSE 0
        search_end == IF Len(line) < limit + 3 THEN Len(line) ELSE limit + 3
        range == {i \in search_start..(search_end - 1) : i < Len(line)}
        space == {i \in range : line[i + 1] = " " /\ i <= limit}
        two_char == {i \in search_start..(search_end - 2) :
                        /\ i >= 0 /\ i + 2 <= Len(line)
                        /\ SubSeq(line, i + 1, i + 2) \in Korean_helper_particles
                        /\ i + 2 <= limit}
        one_char == {i \in range : <<line[i + 1]>> \in Korean_helper_particles /\ i + 1 <= limit}
        punct == {i \in range : line[i + 1] \in Korean_punctuation /\ i + 1 <= limit}
    IN  IF two_char # {} THEN SetMax(two_char) + 2
        ELSE IF one_char # {} THEN SetMax(one_char) + 1
        ELSE IF punct # {} THEN SetMax(punct) + 1
        ELSE IF space # {} THEN SetMax(space)
        ELSE -1

\* The position at which to break, 0-based as in the code; -1 when none
Korean_find_best_break_position(line, limit) ==
    LET search_start == IF limit - 8 > 0 THEN limit - 8 ELSE 0
        search_end == IF Len(line) < limit + 3 THEN Len(line) ELSE limit + 3
        range == {i \in search_start..(search_end - 1) : i < Len(line)}
        space == {i \in range : line[i + 1] = " " /\ i <= limit}
        two_char == {i \in search_start..(search_end - 2) :
                        /\ i >= 0 /\ i + 2 <= Len(line)
                        /\ SubSeq(line, i + 1, i + 2) \in Korean_helper_particles
                        /\ i + 2 <= limit}
        one_char == {i \in range : <<line[i + 1]>> \in Korean_helper_particles /\ i + 1 <= limit}
        punct == {i \in range : line[i + 1] \in Korean_punctuation /\ i + 1 <= limit}
    IN  IF space # {} THEN SetMax(space)
        ELSE IF two_char # {} THEN SetMax(two_char) + 2
        ELSE IF one_char # {} THEN SetMax(one_char) + 1
        ELSE IF punct # {} THEN SetMax(punct) + 1
        ELSE -1

\* One call of _break_line_intelligently up to its recursive call
Korean_BreakCall(cfg, line) ==
    LET char_limit == get_character_limit(cfg, cfg.language)
        parts(first_part, second_part) ==
            IF Len(second_part) < 4
            THEN [split |-> FALSE]
            ELSE [split |-> TRUE, first_part |-> first_part, second_part |-> second_part,
                  recurse |-> second_part # <<>> /\ Len(second_part) < Len(line)]
        cut(break_pos) ==
            With(<<rstrip(slice_to(line, break_pos)), lstrip(slice_from(line, break_pos))>>,
                 LAMBDA p : parts(p[1], p[2]))
        at(best) == cut(IF best = -1 THEN char_limit ELSE best)
    IN  IF Len(line) <= char_limit THEN [split |-> FALSE]
        ELSE IF Len(line) - char_limit < 3 THEN [split |-> FALSE]
        ELSE With(Korean_find_best_break_position(line, char_limit), at)

RECURSIVE Korean_break_line_intelligently(_, _)
Korean_break_line_intelligently(cfg, line) ==
    LET result(call) ==
            IF ~call.split THEN <<line>>
            ELSE IF call.recurse
            THEN <<call.first_part>> \o Korean_break_line_intelligently(cfg, call.second_part)
            ELSE <<call.first_part>>
    IN  With(Korean_BreakCall(cfg, line), result)

RECURSIVE Korean_apply_line_breaking(_, _)
Korean_apply_line_breaking(cfg, lines) ==
    IF lines = <<>> THEN <<>>
    ELSE (IF strip(Head(lines)) = <<>> THEN <<>>
          ELSE Korean_break_line_intelligently(cfg, Head(lines)))
         \o Korean_apply_line_breaking(cfg, Tail(lines))

Korean_is_line_continuation(l) ==
    LET line == strip(l)
    IN  IF line = <<>> THEN FALSE
        ELSE IF \E ending \in Korean_continuation_endings : endswith(line, ending) THEN TRUE
        ELSE Len(line) < 6

Korean_add_missing_punctuation(lines) ==
    IF lines = <<>> THEN lines
    ELSE LET last_line == strip(lines[Len(lines)])
         IN  IF /\ last_line # <<>>
                /\ last_line[Len(last_line)] \notin Korean_punctuation
                /\ ~endswith(last_line, <<".", ".", ".">>)
                /\ ~startswith(last_line, <<"U+266A">>)
                /\ ~\E connector \in Korean_connectors : endswith(last_line, connector)
                /\ ~Korean_is_line_continuation(last_line)
             THEN [lines EXCEPT ![Len(lines)] = last_line \o <<".">>]
             ELSE lines

Korean_process_block(cfg, block) ==
    LET punctuated(lines) ==
            IF ~cfg.no_punct_fix THEN Korean_add_missing_punctuation(lines) ELSE lines
        merged(lines) == IF Len(lines) > 1 THEN Korean_smart_merge_lines(cfg, lines) ELSE lines
    IN  IF block.lines = <<>> THEN block
        ELSE [block EXCEPT !.lines =
                punctuated(Korean_apply_line_breaking(cfg,
                    merged(process_dialogue_format(block.lines))))]

\* processor_class(cfg).process_block(block), for the engine of a language
process_block(language, cfg, block) ==
    CASE language = "zh" -> Chinese_process_block(cfg, block)
      [] language = "en" -> English_process_block(cfg, block)
      [] language = "ko" -> Korean_process_block(cfg, block)

-----------------------------------------------------------------------------
(* core/processor.py: SRTProcessor *)

\* self.processors: the languages that have an engine
processors == {"zh", "en", "ko"}

\* block.language or document.detected_language or Language.ENGLISH
block_language_of(block, detected_language) ==
    IF block.language # None THEN block.language
    ELSE IF detected_language # None THEN detected_language
    ELSE "en"

\* _is_bilingual_block: at least two lines, and lines of more than one language
is_bilingual_block(block) ==
    /\ Len(block.lines) >= 2
    /\ Cardinality({detect_line_language(block.lines[i]) :
                        i \in {k \in 1..Len(block.lines) : strip(block.lines[k]) # <<>>}}) > 1

\* The loop of _process_bilingual_block from line i on: a blank line is kept,
\* any other line starts a group, which takes the lines after it up to the
\* first non-blank line of another language and leaves out the blank ones;
\* the engine of the group's language, made for a configuration with that
\* language, processes the group
\* j of the inner loop when it ends: the first line after i that is not blank
\* and of another language, or the end of the block
GroupEnd(lines, i, line_language) ==
    CHOOSE j \in {IF others = {} THEN Len(lines) + 1 ELSE SetMin(others) :
                    others \in {{k \in (i + 1)..Len(lines) :
                                    /\ strip(lines[k]) # <<>>
                                    /\ detect_line_language(lines[k]) # line_language}}} : TRUE

\* consecutive_lines: the lines from i up to j that are not blank
ConsecutiveLines(lines, i, j) == SelectSeq(SubSeq(lines, i, j - 1), LAMBDA l : strip(l) # <<>>)

\* The group as its engine returns it, the group's language being the target;
\* the group itself when its language has no engine
BilingualGroup(cfg, block, line_language, consecutive_lines) ==
    IF line_language \in processors
    THEN CHOOSE r \in
            {process_block(line_language, temp_config, temp_block).lines :
                temp_config \in {[cfg EXCEPT !.language = line_language]},
                temp_block \in {SubtitleBlock(block.index, block.time_code, consecutive_lines,
                                              line_language, block.is_sdh)}} : TRUE
    ELSE consecutive_lines

RECURSIVE BilingualFrom(_, _, _, _)
BilingualFrom(cfg, block, i, processed_lines) ==
    IF i > Len(block.lines) THEN processed_lines
    ELSE IF strip(block.lines[i]) = <<>>
    THEN BilingualFrom(cfg, block, i + 1, Append(processed_lines, block.lines[i]))
    ELSE CHOOSE r \in
            {BilingualFrom(cfg, block, j,
                           processed_lines \o BilingualGroup(cfg, block, line_language,
                                                             ConsecutiveLines(block.lines, i, j))) :
                <<line_language, j>> \in
                    {<<line_language, GroupEnd(block.lines, i, line_language)>> :
                        line_language \in {detect_line_language(block.lines[i])}}} : TRUE

\* A variant that hands the whole block to the engine of its first line
process_bilingual_block_one_engine(cfg, block) ==
    With(detect_line_language(block.lines[1]),
         LAMBDA L : IF L \in processors
                    THEN process_block(L, [cfg EXCEPT !.language = L], block)
                    ELSE block)

process_bilingual_block(cfg, block) ==
    [block EXCEPT !.lines = BilingualFrom(cfg, block, 1, <<>>)]

\* _process_document: the blocks, each made over by _process_bilingual_block or
\* by the engine of its language, if that language has one
process_document(cfg, blocks, detected_language) ==
    [i \in 1..Len(blocks) |->
        IF is_bilingual_block(blocks[i]) THEN process_bilingual_block(cfg, blocks[i])
        ELSE IF block_language_of(blocks[i], detected_language) \in processors
        THEN process_block(block_language_of(blocks[i], detected_language), cfg, blocks[i])
        ELSE blocks[i]]

\* A warning is the record of what its message says (block index, kind,
\* line, limit, language) and of i, the position enumerate gives the block

LineWarning(cfg, block, i, line_idx, line, line_language, char_limit) ==
    IF strip(line) # <<>> /\ Len(line) > char_limit
    THEN <<[i |-> i, block |-> block.index, kind |-> "character limit",
            line |-> line_idx, limit |-> char_limit, language |-> line_language]>>
    ELSE <<>>

RECURSIVE LineWarnings(_, _, _, _)
LineWarnings(cfg, block, i, line_idx) ==
    IF line_idx > Len(block.lines) THEN <<>>
    ELSE (CHOOSE r \in {LineWarning(cfg, block, i, line_idx, block.lines[line_idx],
                                    line_language, get_character_limit(cfg, line_language)) :
                        line_language \in {detect_line_language(block.lines[line_idx])}} : TRUE)
         \o LineWarnings(cfg, block, i, line_idx + 1)

\* the warnings validate_document appends for the block at position i
block_warnings(cfg, block, detected_language, i) ==
    LET block_language == block_language_of(block, detected_language) IN
    IF block_language \notin processors THEN <<>>
    ELSE LineWarnings(cfg, block, i, 1)
         \o (IF ~cfg.no_speed_check /\ ~validate_reading_speed(cfg, block)
             THEN <<[i |-> i, block |-> block.index, kind |-> "Reading speed", line |-> 0,
                     limit |-> get_reading_speed_limit(cfg, block_language),
                     language |-> block_language]>>
             ELSE <<>>)

RECURSIVE DocWarnings(_, _, _, _)
DocWarnings(cfg, blocks, detected_language, i) ==
    IF i > Len(blocks) THEN <<>>
    ELSE block_warnings(cfg, blocks[i], detected_language, i)
         \o DocWarnings(cfg, blocks, detected_language, i + 1)

validate_document(cfg, blocks, detected_language) ==
    CHOOSE r \in
        {[warnings |-> warnings,
          statistics |-> [total_blocks |-> Len(blocks), warning_count |-> Len(warnings)]] :
            warnings \in {DocWarnings(cfg, blocks, detected_language, 1)}} : TRUE

\* The document after language detection and SDH removal
LoadedDocument(cfg, blocks) ==
    CHOOSE r \in
        {[ok |-> TRUE,
          config |-> [cfg EXCEPT !.language = detected_language],
          detected_language |-> detected_language,
          blocks |-> IF cfg.remove_sdh THEN remove_sdh_blocks_and_clean_content(tagged)
                     ELSE tagged] :
            detected_language \in {IF cfg.language = "auto" THEN detect_language(blocks)
                                   ELSE cfg.language},
            tagged \in {detect_block_languages(blocks)}} : TRUE

\* process_file and check_file_only down to SDH removal: parse, detect the
\* language (writing it into self.config when that says auto), tag the blocks,
\* remove SDH.  A parse error leaves everything as it was.
load_document(cfg, content) ==
    CHOOSE r \in
        {IF ~parsed.ok THEN [ok |-> FALSE, config |-> cfg]
         ELSE LoadedDocument(cfg, parsed.blocks) : parsed \in {parse_content(content)}} : TRUE

\* The report on a loaded document; warning_blocks is the number of distinct
\* "Block <index>" prefixes of the warnings, compliance_rate the fraction
\* num / den
CheckReport(loaded) ==
    CHOOSE r \in
        {[ok |-> TRUE, config |-> loaded.config,
          detected_language |-> loaded.detected_language,
          document |-> loaded.blocks,
          warnings |-> results.warnings,
          total_blocks |-> results.statistics.total_blocks,
          compliant_blocks |-> compliant_blocks,
          compliance_rate |-> IF results.statistics.total_blocks > 0
                              THEN [num |-> compliant_blocks * 100,
                                    den |-> results.statistics.total_blocks]
                              ELSE [num |-> 0, den |-> 1]] :
            <<results, compliant_blocks>> \in
                {<<results,
                   results.statistics.total_blocks
                   - Cardinality({results.warnings[i].block : i \in 1..Len(results.warnings)})>> :
                    results \in {validate_document(loaded.config, loaded.blocks,
                                                   loaded.detected_language)}}} : TRUE

check_file_only(cfg, content) ==
    CHOOSE r \in
        {IF ~loaded.ok THEN loaded ELSE CheckReport(loaded) :
            loaded \in {load_document(cfg, content)}} : TRUE

\* process_file: the value returned is the document _process_document makes of
\* the loaded one: the same blocks with their lines rewritten by the line
\* engines, and the same detected_language
ProcessedDocument(loaded) ==
    IF ~loaded.ok THEN loaded
    ELSE [ok |-> TRUE, config |-> loaded.config,
          detected_language |-> loaded.detected_language,
          blocks |-> process_document(loaded.config, loaded.blocks,
                                      loaded.detected_language)]

process_file(cfg, content) ==
    CHOOSE r \in {ProcessedDocument(loaded) : loaded \in {load_document(cfg, content)}} : TRUE

-----------------------------------------------------------------------------
(* The files and configurations the model runs on *)

MaxFiles == 2

Rep(c, n) == [i \in 1..n |-> c]

\* Blocks of text to build the files from: <<lines, start, end>>
BlockPool ==
    { << <<Rep("a", 20), Rep("b", 20)>>, 0, 2000 >>,
      << <<Rep("a", 43)>>, 1000, 1000 >>,
      << <<Rep("U+4E2D", 10)>>, 1000, 2000 >>,
      << <<Rep("U+6587", 17)>>, 0, 3000 >>,
      << <<Rep("U+3042", 14)>>, 0, 1000 >>,
      << <<Rep("U+D55C", 9)>>, 2000, 1000 >>,
      << << <<"U+266A", "U+266A">> >>, 0, 1000 >> }

PoolBlock(p, index) == SubtitleBlock(index, [start |-> p[2], end |-> p[3]], p[1], None, FALSE)

\* Two texts the parser rejects
BadFiles == { <<"x">>, <<"1", "\n", "x">> }

\* The files to check: no block, one block, or two blocks numbered 1, 2 or
\* both 1; and the two bad ones
Files ==
    {to_srt_format(d) : d \in
        {<<>>} \cup {<<PoolBlock(p, 1)>> : p \in BlockPool}
        \cup {<<PoolBlock(p, 1), PoolBlock(q, i)>> : p \in BlockPool, q \in BlockPool, i \in {1, 2}}}
    \cup BadFiles

\* The files of the batch directory: an English, a Chinese and a Korean one,
\* one of SDH only, and a bad one
BatchFiles ==
    {to_srt_format(<<PoolBlock(p, 1)>>) : p \in
        { << <<Rep("a", 20), Rep("b", 20)>>, 0, 2000 >>,
          << <<Rep("U+4E2D", 10)>>, 1000, 2000 >>,
          << <<Rep("U+D55C", 9)>>, 2000, 1000 >>,
          << << <<"U+266A", "U+266A">> >>, 0, 1000 >> }}
    \cup { <<"x">> }

Configs ==
    [language : {"auto", "zh", "en", "ko", "ja"}, content_type : {"adult", "children"},
     sdh_mode : BOOLEAN, no_speed_check : BOOLEAN, remove_sdh : BOOLEAN,
     no_punct_fix : {FALSE}]

-----------------------------------------------------------------------------
(* Spec: one SRTProcessor handles the files of a batch, one after the other  *)
(* (cli.py _process_batch, _check_batch)                                     *)

IdleProcessor ==
    /\ config = [language |-> "auto", content_type |-> "adult", sdh_mode |-> FALSE,
                 no_speed_check |-> FALSE, remove_sdh |-> TRUE]
    /\ supplied = config /\ last = [op |-> "none"] /\ handled = 0
IdleSdh == doc = <<>> /\ sdhOut = [op |-> "none"]
IdleRt == rtDoc = <<>> /\ rtText = [done |-> FALSE] /\ rtParsed = [done |-> FALSE]
IdleTime == tm = [stage |-> "none"]
IdleEng == eng = [stage |-> "none"]
IdleBatch == batch = [stage |-> "none"]
IdleDet == det = [stage |-> "none"]
IdleRest == IdleTime /\ IdleEng /\ IdleBatch /\ IdleDet

\* main_cli: the ProcessingConfig is built and SRTProcessor(config) keeps it
NewProcessor ==
    /\ config \in Configs
    /\ supplied = config
    /\ last = [op |-> "none"]
    /\ handled = 0

Init == NewProcessor /\ IdleSdh /\ IdleRt /\ IdleRest

\* processor.process_file(f, output_file); an exception leaves the processor as it was
ProcessFile(f) ==
    /\ \E r \in {process_file(config, f)} :
          /\ config' = r.config
          /\ last' = [op |-> "process_file", file |-> f, result |-> r]
    /\ handled' = handled + 1
    /\ UNCHANGED <<supplied, doc, sdhOut, rtDoc, rtText, rtParsed, tm, eng, batch, det>>

\* processor.check_file_only(f)
CheckFileOnly(f) ==
    /\ \E r \in {check_file_only(config, f)} :
          /\ config' = r.config
          /\ last' = [op |-> "check_file_only", file |-> f, result |-> r]
    /\ handled' = handled + 1
    /\ UNCHANGED <<supplied, doc, sdhOut, rtDoc, rtText, rtParsed, tm, eng, batch, det>>

Next ==
    \/ \E f \in BatchFiles : handled < MaxFiles /\ ProcessFile(f)
    \/ \E f \in BatchFiles : handled < MaxFiles /\ CheckFileOnly(f)

Spec == Init /\ [][Next]_vars

-----------------------------------------------------------------------------
(* SpecCheck: a new SRTProcessor checks one file (cli.py _check_single_file) *)

NextCheck == \E f \in Files : last.op = "none" /\ CheckFileOnly(f)

SpecCheck == Init /\ [][NextCheck]_vars

-----------------------------------------------------------------------------
(* SpecSdh: the SDH methods of an SRTDocument, called one after another     *)
(* (models/subtitle.py get_sdh_only_blocks, remove_sdh_only_blocks,         *)
(* remove_sdh_blocks_and_clean_content)                                     *)

MaxPieces == 3
MaxSdhBlocks == 3
MaxSdhCalls == 2

\* Pieces of subtitle lines: [a], (b), x, a dash, a space, a music note, a
\* span in full-width parentheses, a span in corner brackets
SdhPieces ==
    { <<"[", "a", "]">>, <<"(", "b", ")">>, <<"x">>, <<"-">>, <<" ">>, <<"U+266A">>,
      <<"U+FF08", "U+97F3", "U+4E50", "U+FF09">>, <<"U+300C", "a", "U+300D">> }

\* The lines of up to MaxPieces pieces that a parsed block can hold: no
\* trailing white space (_parse_block keeps line.rstrip()), not empty
RECURSIVE PieceLines(_)
PieceLines(n) ==
    IF n = 0 THEN {<<>>}
    ELSE PieceLines(n - 1) \cup {l \o p : l \in PieceLines(n - 1), p \in SdhPieces}

SdhLines == {l \in PieceLines(MaxPieces) : l # <<>> /\ rstrip(l) = l}

\* Lines for the blocks of two lines
SdhLinePool ==
    { <<"[", "a", "]">>, <<"x">>, <<"U+266A">>, <<"-", " ", "[", "a", "]">>,
      <<"U+FF08", "U+97F3", "U+4E50", "U+FF09">>, <<"U+FF08", "U+7684", "U+FF09">> }

\* Blocks for the documents of several blocks
SdhBlockPool ==
    { << <<"U+266A", "U+266A">> >>, << <<"x">> >>, << <<"[", "a", "]", " ", "x">> >>,
      << <<"U+300C", "a", "U+300D">> >>, << <<"[", "a", "]">>, <<"(", "b", ")">> >> }

SdhBlock(index, lines) == SubtitleBlock(index, [start |-> 0, end |-> 1000], lines, None, FALSE)

\* The documents: one block of one line, one block of two lines, and 2 to
\* MaxSdhBlocks blocks numbered from 1 or from 7 in steps of 2
SdhDocs ==
    {<<SdhBlock(1, <<l>>)>> : l \in SdhLines}
    \cup {<<SdhBlock(1, <<l, m>>)>> : l \in SdhLinePool, m \in SdhLinePool}
    \cup UNION {{[i \in 1..n |-> SdhBlock(IF from = 1 THEN i ELSE from + 2 * i, ls[i])] :
                    ls \in [1..n -> SdhBlockPool], from \in {1, 7}} : n \in 2..MaxSdhBlocks}

InitSdh ==
    /\ IdleProcessor /\ IdleRt /\ IdleRest
    /\ doc \in SdhDocs
    /\ sdhOut = [op |-> "none"]

\* document.get_sdh_only_blocks()
GetSdhOnlyBlocks ==
    /\ sdhOut' = [op |-> "get_sdh_only_blocks", src |-> doc,
                  blocks |-> SelectSeq(doc, is_sdh_only_block)]
    /\ handled' = handled + 1
    /\ UNCHANGED <<config, supplied, last, doc, rtDoc, rtText, rtParsed, tm, eng, batch, det>>

\* document.remove_sdh_only_blocks(): the blocks kept are renumbered in place
RemoveSdhOnlyBlocks ==
    /\ sdhOut' = [op |-> "remove_sdh_only_blocks", src |-> doc,
                  blocks |-> remove_sdh_only_blocks(doc)]
    /\ doc' = source_after_remove_sdh_only_blocks(doc)
    /\ handled' = handled + 1
    /\ UNCHANGED <<config, supplied, last, rtDoc, rtText, rtParsed, tm, eng, batch, det>>

\* document.remove_sdh_blocks_and_clean_content()
RemoveSdhBlocksAndCleanContent ==
    /\ sdhOut' = [op |-> "remove_sdh_blocks_and_clean_content", src |-> doc,
                  blocks |-> remove_sdh_blocks_and_clean_content(doc)]
    /\ handled' = handled + 1
    /\ UNCHANGED <<config, supplied, last, doc, rtDoc, rtText, rtParsed, tm, eng, batch, det>>

NextSdh ==
    \/ handled < MaxSdhCalls /\ GetSdhOnlyBlocks
    \/ handled < MaxSdhCalls /\ RemoveSdhOnlyBlocks
    \/ handled < MaxSdhCalls /\ RemoveSdhBlocksAndCleanContent

SpecSdh == InitSdh /\ [][NextSdh]_vars

-----------------------------------------------------------------------------
(* SpecRoundTrip: a document is serialised by to_srt_format and the text    *)
(* is parsed again by _parse_content                                        *)

MaxRtLines == 2

\* 00:00:01,000 --> 00:00:02,000 as a line of text
TimeCodeLine == TimeCode_to_srt_format([start |-> 1000, end |-> 2000])

\* Lines of text: plain, with a space after or before, blank, a bare
\* integer (also with a space before it), and one that reads as a time code
RtLinePool == { <<"a">>, <<"a", " ">>, <<" ", "a">>, <<>>, <<"7">>, <<" ", "7">>, TimeCodeLine }

RtLines == UNION {[1..n -> RtLinePool] : n \in 0..MaxRtLines}

\* Time codes: a second, up to 99:59:59,999, and up to 100:00:00,000
RtTimeCodes ==
    { [start |-> 1000, end |-> 2000], [start |-> 0, end |-> 359999999],
      [start |-> 0, end |-> 360000000] }

\* The documents: none, one or two blocks
RtDocs ==
    {<<>>}
    \cup {<<SubtitleBlock(i, [start |-> 1000, end |-> 2000], ls, None, FALSE)>> :
             ls \in RtLines, i \in {1, 12}}
    \cup {<<SubtitleBlock(1, tc, <<<<"a">>>>, None, FALSE)>> : tc \in RtTimeCodes}
    \cup {<<SubtitleBlock(1, [start |-> 1000, end |-> 2000], ls, None, FALSE),
            SubtitleBlock(i, [start |-> 2000, end |-> 3000], ms, None, FALSE)>> :
             ls \in RtLines, ms \in {<< <<"a">> >>, << <<"7">> >>, << <<"a">>, <<>> >>},
             i \in {1, 2}}

InitRoundTrip ==
    /\ IdleProcessor /\ IdleSdh /\ IdleRest
    /\ rtDoc \in RtDocs
    /\ rtText = [done |-> FALSE]
    /\ rtParsed = [done |-> FALSE]

\* text = document.to_srt_format()
Serialize ==
    /\ ~rtText.done
    /\ rtText' = [done |-> TRUE, text |-> to_srt_format(rtDoc)]
    /\ UNCHANGED <<config, supplied, last, handled, doc, sdhOut, rtDoc, rtParsed, tm, eng, batch, det>>

\* parser._parse_content(text)
Parse ==
    /\ rtText.done /\ ~rtParsed.done
    /\ rtParsed' = [done |-> TRUE, result |-> parse_content(rtText.text)]
    /\ UNCHANGED <<config, supplied, last, handled, doc, sdhOut, rtDoc, rtText, tm, eng, batch, det>>

NextRoundTrip == Serialize \/ Parse

SpecRoundTrip == InitRoundTrip /\ [][NextRoundTrip]_vars

-----------------------------------------------------------------------------
(* SpecParse: the text of a file, well formed or not, is parsed by          *)
(* _parse_content                                                           *)

MaxParseLines == 6

\* The lines the texts are made of: the indices 1 and 0, a line that is
\* neither an index nor a time code, a time-code line and a blank line
ParseLinePool == { <<"1">>, <<"0">>, <<"x">>, TimeCodeLine, <<>> }

ParseTexts ==
    UNION {{join(lines, <<"\n">>) : lines \in [1..n -> ParseLinePool]} : n \in 0..MaxParseLines}

\* content = f.read()
InitParse ==
    /\ IdleProcessor /\ IdleSdh /\ IdleRest
    /\ rtDoc = <<>>
    /\ rtText \in [done : {TRUE}, text : ParseTexts]
    /\ rtParsed = [done |-> FALSE]

\* blocks = self._parse_content(content)
ParseContent ==
    /\ rtText.done /\ ~rtParsed.done
    /\ rtParsed' = [done |-> TRUE, result |-> parse_content(rtText.text)]
    /\ UNCHANGED <<config, supplied, last, handled, doc, sdhOut, rtDoc, rtText, tm, eng, batch, det>>

NextParse == ParseContent

SpecParse == InitParse /\ [][NextParse]_vars

-----------------------------------------------------------------------------
(* SpecTime: a time string is parsed by TimeCode._parse_time and the value  *)
(* formatted by TimeCode._format_time; a time-code line made of it is read  *)
(* by the parser                                                            *)

\* The fields of the time strings: in range, out of range, of a wrong width
HourFields == { <<"0", "0">>, <<"2", "3">>, <<"9", "9">>, <<"1">>, <<"1", "0", "0">> }
MinuteFields == { <<"0", "0">>, <<"5", "9">>, <<"6", "0">>, <<"9", "9">> }
SecondFields == { <<"0", "0">>, <<"5", "9">>, <<"7", "5">> }
MilliFields == { <<"0", "0", "0">>, <<"9", "9", "9">>, <<"0", "0", "7">>, <<"5">> }

TimeStrings ==
    {h \o <<":">> \o m \o <<":">> \o sec \o <<",">> \o ms :
        h \in HourFields, m \in MinuteFields, sec \in SecondFields, ms \in MilliFields}

\* What stands between the two times of a line
Arrows == { <<" ", "-", "-", ">", " ">>, <<"-", "-", ">">>, <<" ", "-", ">", " ">> }

InitTime ==
    /\ IdleProcessor /\ IdleSdh /\ IdleRt /\ IdleEng /\ IdleBatch /\ IdleDet
    /\ tm \in [stage : {"new"}, s : TimeStrings, arrow : Arrows, first : BOOLEAN]

\* td = TimeCode._parse_time(s)
ParseTime ==
    /\ tm.stage = "new"
    /\ tm' = [stage |-> "parsed", s |-> tm.s, parsed |-> TimeCode_parse_time(tm.s)]
    /\ UNCHANGED <<config, supplied, last, handled, doc, sdhOut, rtDoc, rtText, rtParsed,
                   eng, batch, det>>

\* TimeCode._format_time(td)
FormatTime ==
    /\ tm.stage = "parsed" /\ tm.parsed.ok
    /\ tm' = [stage |-> "formatted", s |-> tm.s, parsed |-> tm.parsed,
              formatted |-> TimeCode_format_time(tm.parsed.value)]
    /\ UNCHANGED <<config, supplied, last, handled, doc, sdhOut, rtDoc, rtText, rtParsed,
                   eng, batch, det>>

\* The time-code line with s as its first or its second time
TimeLine(s, arrow, first) ==
    IF first THEN s \o arrow \o <<"0", "0", ":", "0", "0", ":", "0", "2", ",", "0", "0", "0">>
    ELSE <<"0", "0", ":", "0", "0", ":", "0", "1", ",", "0", "0", "0">> \o arrow \o s

\* parser._parse_content of a block whose second line is that time-code line
ParseTimeLine ==
    /\ tm.stage = "new"
    /\ tm' = [stage |-> "line", s |-> tm.s, line |-> TimeLine(tm.s, tm.arrow, tm.first),
              result |-> parse_content(<<"1", "\n">> \o TimeLine(tm.s, tm.arrow, tm.first)
                                       \o <<"\n", "a">>)]
    /\ UNCHANGED <<config, supplied, last, handled, doc, sdhOut, rtDoc, rtText, rtParsed,
                   eng, batch, det>>

NextTime == ParseTime \/ FormatTime \/ ParseTimeLine

SpecTime == InitTime /\ [][NextTime]_vars

-----------------------------------------------------------------------------
(* SpecEngine: a line engine is made for a configuration and its            *)
(* process_block is called on a block, then on the block that call returned *)

MaxEngineLines == 3

EnLong ==
    <<"W", "e", " ", "w", "e", "n", "t", " ", "t", "o", " ", "t", "h", "e", " ", "o",
      "l", "d", " ", "m", "a", "r", "k", "e", "t", " ", "e", "a", "r", "l", "y", ",", " ",
      "a", "n", "d", " ", "t", "h", "e", "n", " ", "w", "e", " ", "w", "a", "l", "k", "e",
      "d", " ", "b", "a", "c", "k", " ", "h", "o", "m", "e", " ", "s", "l", "o", "w", "l",
      "y", ".">>
EnAtLimit ==
    <<"T", "h", "e", "y", " ", "w", "e", "r", "e", " ", "a", "l", "l", " ", "w", "a",
      "i", "t", "i", "n", "g", " ", "a", "t", " ", "t", "h", "e", " ", "o", "l", "d", " ",
      "s", "t", "a", "t", "i", "o", "n", ".">>

\* The lines the blocks are made of: short ones with and without a terminal
\* mark, a dialogue line, a line over the limit and one just under it
EngineLines(engine) ==
    CASE engine = "zh" ->
            {<<"U+4E2D", "U+6587", "U+3002">>, <<"U+97F3", "U+4E50">>,
             <<"-", "U+4E2D", "U+6587">>,
             Rep("U+4E2D", 13) \o <<"U+7684">> \o Rep("U+6587", 8) \o <<"U+3002">>,
             Rep("U+4E50", 15) \o <<"U+3002">>}
      [] engine = "en" ->
            {<<"H", "i", ".">>, <<"G", "o", " ", "o", "n">>, <<"-", "N", "o", "!">>,
             EnLong, EnAtLimit}
      [] engine = "ko" ->
            {<<"U+D55C", "U+AE00", "U+3002">>, <<"U+AE00", " ", "U+D55C">>,
             <<"-", "U+D55C", "U+AE00">>,
             Rep("U+D55C", 10) \o <<"U+C774">> \o Rep("U+AE00", 9) \o <<"U+3002">>,
             Rep("U+AE00", 15) \o <<"U+3002">>}

EngineBlocks(engine) ==
    UNION {{SubtitleBlock(1, [start |-> 0, end |-> 2000], lines, engine, FALSE) :
                lines \in [1..n -> EngineLines(engine)]} : n \in 1..MaxEngineLines}

\* A ProcessingConfig whose language is the engine's
EngineConfigs(engine) == [language : {engine}, sdh_mode : BOOLEAN, no_punct_fix : BOOLEAN]

InitEngine ==
    /\ IdleProcessor /\ IdleSdh /\ IdleRt /\ IdleTime /\ IdleBatch /\ IdleDet
    /\ \E engine \in processors :
          eng \in [stage : {"new"}, engine : {engine}, cfg : EngineConfigs(engine),
                   block : EngineBlocks(engine)]

\* once = processor_class(cfg).process_block(block)
ProcessBlock ==
    /\ eng.stage = "new"
    /\ eng' = [stage |-> "once", engine |-> eng.engine, cfg |-> eng.cfg, block |-> eng.block,
               once |-> process_block(eng.engine, eng.cfg, eng.block)]
    /\ UNCHANGED <<config, supplied, last, handled, doc, sdhOut, rtDoc, rtText, rtParsed,
                   tm, batch, det>>

\* twice = processor_class(cfg).process_block(once)
ProcessBlockAgain ==
    /\ eng.stage = "once"
    /\ eng' = [stage |-> "twice", engine |-> eng.engine, cfg |-> eng.cfg, block |-> eng.block,
               once |-> eng.once, twice |-> process_block(eng.engine, eng.cfg, eng.once)]
    /\ UNCHANGED <<config, supplied, last, handled, doc, sdhOut, rtDoc, rtText, rtParsed,
                   tm, batch, det>>

NextEngine == ProcessBlock \/ ProcessBlockAgain

SpecEngine == InitEngine /\ [][NextEngine]_vars

-----------------------------------------------------------------------------
(* SpecBreak: _break_line_intelligently is called on a line; each step is   *)
(* one invocation, which either returns or calls itself on the second part  *)

MaxUnits == 6

\* The pieces the lines are made of: a plain run, a run that ends in a helper
\* word (a comma, for English), and a run with punctuation and a space
BreakUnits(engine) ==
    CASE engine = "zh" ->
            {Rep("U+4E2D", 5), Rep("U+6587", 3) \o <<"U+7684">>,
             <<"U+4E50", "U+FF0C", "U+4E50", " ", "U+4E50", "U+4E50">>}
      [] engine = "en" ->
            {<<"w", "e", " ", "g", "o", " ", "t", "o", " ", "i", "t", ",", " ">>,
             <<"h", "e", " ", "r", "a", "n", " ", "a", "n", "d", " ", "s", "a", "t", " ">>,
             <<"n", "o", " ", "s", "t", "o", "p", " ", "h", "e", "r", "e", " ", "n", "o", "w", " ">>}
      [] engine = "ko" ->
            {Rep("U+D55C", 5), Rep("U+AE00", 3) \o <<"U+C774">>,
             <<"U+D55C", "U+3002", "U+AE00", " ", "U+AE00", "U+AE00">>}

RECURSIVE Concat(_)
Concat(parts) ==
    With(parts, LAMBDA p : IF p = <<>> THEN <<>> ELSE Head(p) \o Concat(Tail(p)))

\* A line whose conjunction "or" is first met inside the word "doctor"
EnInsideWord ==
    <<"t", "h", "e", "y", " ", "w", "e", "n", "t", " ", "t", "o", " ", "s", "e", "e", " ",
      "t", "h", "e", " ", "o", "l", "d", " ", "d", "o", "c", "t", "o", "r", " ", "t", "o",
      "d", "a", "y", " ", "o", "r", " ", "h", "e", " ", "w", "o", "u", "l", "d", " ", "n",
      "o", "t", " ", "c", "o", "m", "e", " ", "b", "a", "c", "k", " ", "h", "o", "m", "e",
      " ", "a", "g", "a", "i", "n">>

BreakLines(engine) ==
    UNION {{rstrip(Concat(units)) : units \in [1..n -> BreakUnits(engine)]} : n \in 1..MaxUnits}
    \cup (IF engine = "en" THEN {EnInsideWord} ELSE {})

\* One call of the engine's _break_line_intelligently
BreakCall(engine, cfg, line) ==
    CASE engine = "zh" -> Chinese_BreakCall(cfg, line)
      [] engine = "en" -> English_BreakCall(cfg, line)
      [] engine = "ko" -> Korean_BreakCall(cfg, line)

InitBreak == IdleProcessor /\ IdleSdh /\ IdleRt /\ IdleRest

\* processor_class(cfg)._break_line_intelligently(input) is called
BreakLineIntelligently ==
    /\ eng.stage = "none"
    /\ \E engine \in processors, sdh_mode \in BOOLEAN : \E input \in BreakLines(engine) :
          eng' = [stage |-> "call", engine |-> engine,
                  cfg |-> [language |-> engine, sdh_mode |-> sdh_mode, no_punct_fix |-> FALSE],
                  input |-> input, line |-> input, result |-> <<>>]
    /\ UNCHANGED <<config, supplied, last, handled, doc, sdhOut, rtDoc, rtText, rtParsed,
                   tm, batch, det>>

\* The invocation splits its line and calls itself on the second part
BreakLineRecurse ==
    /\ eng.stage = "call"
    /\ \E call \in {BreakCall(eng.engine, eng.cfg, eng.line)} :
          /\ call.split /\ call.recurse
          /\ eng' = [eng EXCEPT !.line = call.second_part,
                                !.result = Append(@, call.first_part)]
    /\ UNCHANGED <<config, supplied, last, handled, doc, sdhOut, rtDoc, rtText, rtParsed,
                   tm, batch, det>>

\* The invocation returns: the line unbroken, or its first part alone
BreakLineReturn ==
    /\ eng.stage = "call"
    /\ \E call \in {BreakCall(eng.engine, eng.cfg, eng.line)} :
          /\ ~(call.split /\ call.recurse)
          /\ eng' = [eng EXCEPT !.stage = "returned",
                                !.result = Append(@, IF call.split THEN call.first_part
                                                     ELSE eng.line)]
    /\ UNCHANGED <<config, supplied, last, handled, doc, sdhOut, rtDoc, rtText, rtParsed,
                   tm, batch, det>>

NextBreak == BreakLineIntelligently \/ BreakLineRecurse \/ BreakLineReturn

SpecBreak == InitBreak /\ [][NextBreak]_vars

\* A call that has started runs on
SpecBreakFair == SpecBreak /\ WF_vars(BreakLineRecurse \/ BreakLineReturn)

-----------------------------------------------------------------------------
(* SpecRepair: an engine's _add_missing_punctuation is called on the lines  *)
(* of a block, then on the lines that call returned                         *)

MaxRepairLines == 2

\* Final lines of each kind the repair tells apart: a complete sentence without
\* a mark, one with a terminal mark, one that ends in a comma / a connective,
\* a short one, a music line and one that ends in an ellipsis
RepairLines(engine) ==
    CASE engine = "zh" ->
            {Rep("U+4E2D", 8), Rep("U+4E2D", 8) \o <<"U+3002">>,
             Rep("U+4E2D", 8) \o <<"U+FF0C">>, <<"U+4E2D", "U+6587">>,
             <<"U+266A">> \o Rep("U+4E50", 8), Rep("U+4E2D", 8) \o <<".", ".", ".">>}
      [] engine = "ko" ->
            {Rep("U+D55C", 6), Rep("U+D55C", 6) \o <<"U+3002">>,
             Rep("U+D55C", 6) \o <<"U+ACE0">>, <<"U+D55C", "U+AE00">>,
             <<"U+266A">> \o Rep("U+AE00", 6), Rep("U+D55C", 6) \o <<".", ".", ".">>}

add_missing_punctuation(engine, lines) ==
    IF engine = "zh" THEN Chinese_add_missing_punctuation(lines)
    ELSE Korean_add_missing_punctuation(lines)

InitRepair ==
    /\ IdleProcessor /\ IdleSdh /\ IdleRt /\ IdleTime /\ IdleBatch /\ IdleDet
    /\ \E engine \in {"zh", "ko"}, n \in 1..MaxRepairLines :
          eng \in [stage : {"new"}, engine : {engine}, lines : [1..n -> RepairLines(engine)]]

\* once = processor._add_missing_punctuation(lines)
AddMissingPunctuation ==
    /\ eng.stage = "new"
    /\ eng' = [stage |-> "once", engine |-> eng.engine, lines |-> eng.lines,
               once |-> add_missing_punctuation(eng.engine, eng.lines)]
    /\ UNCHANGED <<config, supplied, last, handled, doc, sdhOut, rtDoc, rtText, rtParsed,
                   tm, batch, det>>

\* twice = processor._add_missing_punctuation(once)
AddMissingPunctuationAgain ==
    /\ eng.stage = "once"
    /\ eng' = [stage |-> "twice", engine |-> eng.engine, lines |-> eng.lines,
               once |-> eng.once, twice |-> add_missing_punctuation(eng.engine, eng.once)]
    /\ UNCHANGED <<config, supplied, last, handled, doc, sdhOut, rtDoc, rtText, rtParsed,
                   tm, batch, det>>

NextRepair == AddMissingPunctuation \/ AddMissingPunctuationAgain

SpecRepair == InitRepair /\ [][NextRepair]_vars

-----------------------------------------------------------------------------
(* SpecDocument: a new SRTProcessor processes one file whose blocks hold    *)
(* lines of several languages (processor.py process_file)                   *)

MaxDocLines == 3

\* Lines of one script each: Chinese (short; 23 characters, over the limit of
\* 16), English, Korean and Japanese
DocLines ==
    { <<"U+4E2D", "U+6587">>,
      Rep("U+4E2D", 13) \o <<"U+7684">> \o Rep("U+6587", 8) \o <<"U+3002">>,
      <<"H", "i", ".">>,
      <<"a", "n", "d", " ", "y", "o", "u">>,
      <<"U+D55C", "U+AE00">>,
      <<"U+3042", "U+306E">> }

\* One block of up to MaxDocLines lines, or two blocks of one line
DocFiles ==
    {to_srt_format(<<PoolBlock(<<lines, 0, 2000>>, 1)>>) :
        lines \in UNION {[1..n -> DocLines] : n \in 1..MaxDocLines}}
    \cup {to_srt_format(<<PoolBlock(<< <<a>>, 0, 2000 >>, 1),
                          PoolBlock(<< <<b>>, 2000, 4000 >>, 2)>>) :
            a \in DocLines, b \in DocLines}

DocConfigs ==
    [language : {"auto", "zh", "en", "ko"}, content_type : {"adult"},
     sdh_mode : {FALSE}, no_speed_check : {FALSE}, remove_sdh : {FALSE},
     no_punct_fix : BOOLEAN]

InitDocument ==
    /\ config \in DocConfigs
    /\ supplied = config /\ last = [op |-> "none"] /\ handled = 0
    /\ IdleSdh /\ IdleRt /\ IdleRest

NextDocument == \E f \in DocFiles : last.op = "none" /\ ProcessFile(f)

SpecDocument == InitDocument /\ [][NextDocument]_vars

-----------------------------------------------------------------------------
(* SpecBatch: _process_batch or _check_batch runs over the files that glob  *)
(* found, one loop iteration a step (cli.py)                                *)

BatchConfigs ==
    [language : {"auto", "zh"}, content_type : {"adult"}, sdh_mode : {FALSE},
     no_speed_check : {FALSE}, remove_sdh : {TRUE}, no_punct_fix : {FALSE}]

\* list(batch_dir.glob("*.srt")): up to MaxFiles files, in any order
SrtFileLists == UNION {[1..n -> BatchFiles] : n \in 0..MaxFiles}

InitBatch ==
    /\ config \in BatchConfigs
    /\ supplied = config /\ last = [op |-> "none"] /\ handled = 0
    /\ IdleSdh /\ IdleRt /\ IdleTime /\ IdleEng /\ IdleDet
    /\ batch = [stage |-> "none"]

\* The loop is entered with its counters at 0, unless no file was found
BatchStarted(mode, srt_files, output_violation) ==
    [stage |-> IF srt_files = <<>> THEN "returned" ELSE "loop",
     mode |-> mode, srt_files |-> srt_files, output_violation |-> output_violation,
     i |-> 1, attempted |-> <<>>,
     processed_count |-> 0, checked_count |-> 0, failed_count |-> 0, total_violations |-> 0]

\* _process_batch up to the loop
ProcessBatch ==
    /\ batch.stage = "none"
    /\ \E srt_files \in SrtFileLists : batch' = BatchStarted("process", srt_files, FALSE)
    /\ UNCHANGED <<config, supplied, last, handled, doc, sdhOut, rtDoc, rtText, rtParsed,
                   tm, eng, det>>

\* _check_batch up to the loop; output_violation is processor.config.output_violation
CheckBatch ==
    /\ batch.stage = "none"
    /\ \E srt_files \in SrtFileLists, output_violation \in BOOLEAN :
            batch' = BatchStarted("check", srt_files, output_violation)
    /\ UNCHANGED <<config, supplied, last, handled, doc, sdhOut, rtDoc, rtText, rtParsed,
                   tm, eng, det>>

\* One iteration of the loop of _process_batch. process_file raises when the
\* file does not parse or when the output file cannot be written (written is
\* the file system's answer); processed_count is incremented when it returns
ProcessBatchFile ==
    /\ batch.stage = "loop" /\ batch.mode = "process" /\ batch.i <= Len(batch.srt_files)
    /\ \E r \in {process_file(config, batch.srt_files[batch.i])}, written \in BOOLEAN :
          /\ config' = r.config
          /\ last' = [op |-> "process_file", file |-> batch.srt_files[batch.i], result |-> r]
          /\ batch' = [batch EXCEPT
                         !.i = @ + 1,
                         !.attempted = Append(@, batch.i),
                         !.processed_count = IF r.ok /\ written THEN @ + 1 ELSE @,
                         !.failed_count = IF r.ok /\ written THEN @ ELSE @ + 1]
    /\ handled' = handled + 1
    /\ UNCHANGED <<supplied, doc, sdhOut, rtDoc, rtText, rtParsed, tm, eng, det>>

\* One iteration of the loop of _check_batch. checked_count is incremented
\* when check_file_only returns; after that _output_violations_to_file, called
\* when output_violation is set, writes a file if there are violation blocks
\* and raises when the file cannot be written
CheckBatchFile ==
    /\ batch.stage = "loop" /\ batch.mode = "check" /\ batch.i <= Len(batch.srt_files)
    /\ \E r \in {check_file_only(config, batch.srt_files[batch.i])}, written \in BOOLEAN :
          /\ config' = r.config
          /\ last' = [op |-> "check_file_only", file |-> batch.srt_files[batch.i], result |-> r]
          /\ batch' = [batch EXCEPT
                         !.i = @ + 1,
                         !.attempted = Append(@, batch.i),
                         !.checked_count = IF r.ok THEN @ + 1 ELSE @,
                         !.total_violations = IF r.ok THEN @ + Len(r.warnings) ELSE @,
                         !.failed_count =
                            IF ~r.ok THEN @ + 1
                            ELSE IF batch.output_violation /\ r.warnings # <<>> /\ ~written
                            THEN @ + 1
                            ELSE @]
    /\ handled' = handled + 1
    /\ UNCHANGED <<supplied, doc, sdhOut, rtDoc, rtText, rtParsed, tm, eng, det>>

\* After the loop the summary is printed
BatchSummary ==
    /\ batch.stage = "loop" /\ batch.i > Len(batch.srt_files)
    /\ batch' = [batch EXCEPT !.stage = "summary"]
    /\ UNCHANGED <<config, supplied, last, handled, doc, sdhOut, rtDoc, rtText, rtParsed,
                   tm, eng, det>>

NextBatch == ProcessBatch \/ CheckBatch \/ ProcessBatchFile \/ CheckBatchFile \/ BatchSummary

SpecBatch == InitBatch /\ [][NextBatch]_vars

-----------------------------------------------------------------------------
(* SpecDetect: the detector classifies a line, a block or a document        *)
(* (language_detector.py)                                                   *)

MaxHan == 9
MaxLatin == 5
MaxOther == 1

\* Texts of Han characters, Latin letters, a Hangul syllable, a kana, a
\* full stop and a space
DetectTexts ==
    {Rep("U+4E2D", h) \o Rep("a", a) \o Rep("U+D55C", k) \o Rep("U+3042", j)
     \o Rep("U+3002", p) \o Rep(" ", w) :
        h \in 0..MaxHan, a \in 0..MaxLatin, k \in 0..MaxOther, j \in 0..MaxOther,
        p \in 0..MaxOther, w \in 0..MaxOther}

DetectBlock(t) == SubtitleBlock(1, [start |-> 0, end |-> 1000], <<t>>, None, FALSE)

InitDetect ==
    /\ IdleProcessor /\ IdleSdh /\ IdleRt /\ IdleTime /\ IdleEng /\ IdleBatch
    /\ det = [stage |-> "none"]

\* detect_line_language(line)
DetectLineLanguage ==
    /\ det.stage = "none"
    /\ \E t \in DetectTexts :
          det' = [stage |-> "detected", op |-> "line", text |-> t,
                  result |-> detect_line_language(t)]
    /\ UNCHANGED <<config, supplied, last, handled, doc, sdhOut, rtDoc, rtText, rtParsed,
                   tm, eng, batch>>

\* _detect_block_language(block)
DetectBlockLanguage ==
    /\ det.stage = "none"
    /\ \E t \in DetectTexts :
          det' = [stage |-> "detected", op |-> "block", text |-> text(DetectBlock(t)),
                  result |-> detect_block_language(DetectBlock(t))]
    /\ UNCHANGED <<config, supplied, last, handled, doc, sdhOut, rtDoc, rtText, rtParsed,
                   tm, eng, batch>>

\* detect_language(document), the document having no block or one block (the
\* parser makes no block of blank lines)
DetectLanguage ==
    /\ det.stage = "none"
    /\ \E blocks \in {<<>>} \cup {<<DetectBlock(t)>> : t \in {u \in DetectTexts : strip(u) # <<>>}} :
          det' = [stage |-> "detected", op |-> "document",
                  text |-> join(BlockTexts(blocks), <<" ">>),
                  result |-> detect_language(blocks)]
    /\ UNCHANGED <<config, supplied, last, handled, doc, sdhOut, rtDoc, rtText, rtParsed,
                   tm, eng, batch>>

NextDetect == DetectLineLanguage \/ DetectBlockLanguage \/ DetectLanguage

SpecDetect == InitDetect /\ [][NextDetect]_vars

-----------------------------------------------------------------------------
(* Properties of the batch (Spec)                                           *)

\* C1: with language = auto, the detected_language of every file one
\* SRTProcessor handles is what the classifier makes of that file's own
\* content, whatever files were handled before it.
C1_DetectedLanguageOfOwnContent ==
    (supplied.language = "auto" /\ last.op # "none" /\ last.result.ok)
        => last.result.detected_language = detect_language(parse_content(last.file).blocks)

\* C2: process_file and check_file_only leave every field of the
\* ProcessingConfig as the caller supplied it (auto stays auto).
C2_ConfigUnchanged == config = supplied

-----------------------------------------------------------------------------
(* Properties of the compliance check (SpecCheck)                           *)

Checked == last.op = "check_file_only" /\ last.result.ok

\* there is a warning of this kind for the block at position i (line j; 0 for the speed)
Warned(i, kind, j) ==
    \E k \in 1..Len(last.result.warnings) :
        /\ last.result.warnings[k].i = i
        /\ last.result.warnings[k].kind = kind
        /\ last.result.warnings[k].line = j

\* reading speed of the block compared with a limit, in exact arithmetic
SpeedOver(block, limit) == get_reading_speed(block).num > limit * get_reading_speed(block).den
SpeedAt(block, limit) == get_reading_speed(block).num = limit * get_reading_speed(block).den

\* C6: validate_document records a character-limit warning for every
\* non-blank line, in every block of every language tag, that is longer than
\* the character limit of the line's detected language.
C6_EveryOverLongLineWarned ==
    Checked =>
        \A i \in 1..Len(last.result.document) :
            \A j \in 1..Len(last.result.document[i].lines) :
                LET line == last.result.document[i].lines[j] IN
                (/\ strip(line) # <<>>
                 /\ Len(line) > get_character_limit(last.result.config, detect_line_language(line)))
                    => Warned(i, "character limit", j)

\* C7: unless speed checking is disabled, a block gets a reading-speed warning
\* exactly when its reading speed is greater than the limit of the block's
\* resolved language for the configured content type.
C7_SpeedWarningIffOverBlockLimit ==
    (Checked /\ ~last.result.config.no_speed_check) =>
        \A i \in 1..Len(last.result.document) :
            LET block == last.result.document[i] IN
            Warned(i, "Reading speed", 0)
                <=> SpeedOver(block, get_reading_speed_limit(last.result.config,
                        block_language_of(block, last.result.detected_language)))

\* C8: a block whose reading speed equals the speed limit of its language and
\* content type exactly (as 40 characters over 2.0 s with the English adult
\* limit 20) gets no speed warning, and neither does a block whose duration
\* is zero or negative, its reading speed being 0.
C8_AtLimitOrNoDurationNotFlagged ==
    Checked =>
        \A i \in 1..Len(last.result.document) :
            LET block == last.result.document[i] IN
            /\ SpeedAt(block, get_reading_speed_limit(last.result.config,
                           block_language_of(block, last.result.detected_language)))
                  => ~Warned(i, "Reading speed", 0)
            /\ duration(block.time_code) <= 0
                  => get_reading_speed(block).num = 0 /\ ~Warned(i, "Reading speed", 0)

\* C9: compliant_blocks is the number of blocks of the checked document that
\* have no warning, compliance_rate is compliant_blocks / total_blocks x 100,
\* 0 for a document without blocks, and between 0 and 100.
C9_CompliantBlocksCounted ==
    Checked =>
        LET r == last.result
            clean == {i \in 1..Len(r.document) :
                         \A k \in 1..Len(r.warnings) : r.warnings[k].i # i}
        IN  /\ r.total_blocks = Len(r.document)
            /\ r.compliant_blocks = Cardinality(clean)
            /\ r.total_blocks > 0 =>
                  r.compliance_rate.num * r.total_blocks
                      = r.compliant_blocks * 100 * r.compliance_rate.den
            /\ r.total_blocks = 0 => r.compliance_rate.num = 0
            /\ 0 <= r.compliance_rate.num
            /\ r.compliance_rate.num <= 100 * r.compliance_rate.den

-----------------------------------------------------------------------------
(* Properties of SDH removal (SpecSdh)                                      *)

\* no non-space character remains of the line after removing music glyphs,
\* every span in brackets or parentheses (ASCII and full-width) and a leading dash
NothingOutsideSpans(line) ==
    strip(SubLeadingDash(strip(SubSpans(RemoveChars(line, music_glyphs),
                                        audio_description_pairs, FALSE)), <<>>)) = <<>>

SdhOnlyByLines(block) == \A j \in 1..Len(block.lines) : NothingOutsideSpans(block.lines[j])

\* C3: is_sdh_only_block is true of a block exactly when nothing but spaces
\* remains of any of its lines after removing music glyphs, every bracketed
\* or parenthesised span and a leading dash; a block with text outside such
\* spans is never SDH-only.
C3_SdhOnlyExactlyWhenNothingRemains ==
    sdhOut.op = "get_sdh_only_blocks"
        => sdhOut.blocks = SelectSeq(sdhOut.src, SdhOnlyByLines)

NotSdhOnly(block) == ~is_sdh_only_block(block)

\* cleaning leaves the block a line that is not blank
KeepsText(block) ==
    \E j \in 1..Len(clean_sdh_markers(block).lines) :
        strip(clean_sdh_markers(block).lines[j]) # <<>>

NotSdhOnlyAndKeepsText(block) == NotSdhOnly(block) /\ KeepsText(block)

\* the blocks out are the blocks of kept, cleaned, one for one and in order
CleanedOf(out, kept) ==
    /\ Len(out) = Len(kept)
    /\ \A k \in 1..Len(kept) :
          /\ out[k].lines = clean_sdh_markers(kept[k]).lines
          /\ out[k].time_code = kept[k].time_code

\* C4 as stated: remove_sdh_blocks_and_clean_content drops a block only if it
\* is SDH-only, so the output is the non-SDH-only blocks, cleaned, in order.
C4_DropsOnlySdhOnlyBlocks ==
    sdhOut.op = "remove_sdh_blocks_and_clean_content"
        => CleanedOf(sdhOut.blocks, SelectSeq(sdhOut.src, NotSdhOnly))

\* C4, amended: remove_sdh_blocks_and_clean_content drops a block exactly when
\* it is SDH-only or cleaning leaves it no line that is not blank; the output
\* is the other blocks, cleaned, in the same relative order.
C4_DropsSdhOnlyOrEmptiedBlocks ==
    sdhOut.op = "remove_sdh_blocks_and_clean_content"
        => CleanedOf(sdhOut.blocks, SelectSeq(sdhOut.src, NotSdhOnlyAndKeepsText))

\* C4 happens: of three blocks one is SDH-only, one is emptied by cleaning
\* without being SDH-only, and one is kept
C4_Witness ==
    /\ sdhOut.op = "remove_sdh_blocks_and_clean_content"
    /\ Len(sdhOut.src) = 3 /\ Len(sdhOut.blocks) = 1
    /\ \E i \in 1..3 : is_sdh_only_block(sdhOut.src[i])
    /\ \E i \in 1..3 : NotSdhOnly(sdhOut.src[i]) /\ ~KeepsText(sdhOut.src[i])

\* C5: after remove_sdh_blocks_and_clean_content or remove_sdh_only_blocks the
\* blocks returned carry the indices 1, 2, ..., n in document order.
C5_IndicesContiguousFromOne ==
    sdhOut.op \in {"remove_sdh_only_blocks", "remove_sdh_blocks_and_clean_content"}
        => \A k \in 1..Len(sdhOut.blocks) : sdhOut.blocks[k].index = k

\* C5 happens: the first block, all music glyphs and numbered 9, is dropped
\* and the blocks after it are renumbered from 1
C5_Witness ==
    /\ sdhOut.op \in {"remove_sdh_only_blocks", "remove_sdh_blocks_and_clean_content"}
    /\ Len(sdhOut.src) = 3 /\ Len(sdhOut.blocks) = 2
    /\ sdhOut.src[1].lines = << <<"U+266A", "U+266A">> >>
    /\ sdhOut.src[1].index = 9
    /\ sdhOut.blocks[1].index = 1 /\ sdhOut.blocks[2].index = 2

\* C26: remove_sdh_only_blocks and remove_sdh_blocks_and_clean_content leave
\* the source document unchanged: after the call every block of the source has
\* the index and the lines it had before the call.
C26_SourceDocumentUnchanged ==
    sdhOut.op \in {"remove_sdh_only_blocks", "remove_sdh_blocks_and_clean_content"} =>
        /\ Len(doc) = Len(sdhOut.src)
        /\ \A i \in 1..Len(doc) :
              doc[i].index = sdhOut.src[i].index /\ doc[i].lines = sdhOut.src[i].lines

-----------------------------------------------------------------------------
(* Properties of the round trip (SpecRoundTrip)                             *)

\* the parse succeeded with blocks equal to those of d in number, order,
\* index, time code and lines
ParsedEquals(d) ==
    /\ rtParsed.result.ok
    /\ Len(rtParsed.result.blocks) = Len(d)
    /\ \A i \in 1..Len(d) :
          /\ rtParsed.result.blocks[i].index = d[i].index
          /\ rtParsed.result.blocks[i].time_code = d[i].time_code
          /\ rtParsed.result.blocks[i].lines = d[i].lines

\* every block has a text line, and no line that is a bare integer is followed
\* by a time-code line
HasTextAndNoBlockStart(d) ==
    \A i \in 1..Len(d) :
        /\ Len(d[i].lines) >= 1
        /\ \A j \in 1..(Len(d[i].lines) - 1) :
              ~(isdigit(d[i].lines[j]) /\ time_pattern_match(d[i].lines[j + 1]))

\* what the parser normalises or refuses: white space at the end of a line, a
\* line break inside one, a blank last line, a line that reads as a block
\* start once stripped, a negative index, a time outside 00:00:00,000 to
\* 99:59:59,999
Canonical(d) ==
    \A i \in 1..Len(d) :
        /\ d[i].index >= 0
        /\ d[i].time_code.start \in 0..359999999 /\ d[i].time_code.end \in 0..359999999
        /\ Len(d[i].lines) >= 1
        /\ strip(d[i].lines[Len(d[i].lines)]) # <<>>
        /\ \A j \in 1..Len(d[i].lines) :
              /\ rstrip(d[i].lines[j]) = d[i].lines[j]
              /\ find(d[i].lines[j], <<"\n">>) = 0
        /\ \A j \in 1..(Len(d[i].lines) - 1) :
              ~(/\ isdigit(strip(d[i].lines[j]))
                /\ time_pattern_match(strip(d[i].lines[j + 1])))

\* C10 as stated: for a document whose blocks each have a text line and none
\* of whose lines is a bare integer followed by a time-code line,
\* parse_content(to_srt_format(d)) returns blocks equal to d's.
C10_RoundTrip ==
    (rtParsed.done /\ HasTextAndNoBlockStart(rtDoc)) => ParsedEquals(rtDoc)

\* C10, amended: the round trip returns blocks equal to d's for a document
\* whose blocks have a non-negative index, times of whole milliseconds from
\* 00:00:00,000 to 99:59:59,999, at least one line, a last line that is not
\* blank, lines without white space at the end or line breaks, and no line
\* that, stripped, is all digits and followed by a line that, stripped,
\* starts as a time-code line.
C10_RoundTripOfCanonical ==
    (rtParsed.done /\ Canonical(rtDoc)) => ParsedEquals(rtDoc)

\* C10 happens: two blocks, the first with a blank line and then a bare
\* integer as its text, come back as they were
C10_Witness ==
    /\ rtParsed.done /\ Canonical(rtDoc)
    /\ Len(rtDoc) = 2
    /\ rtDoc[1].lines = << <<>>, <<"7">> >>
    /\ ParsedEquals(rtDoc)

\* C24: a blank line ends the text of the current block: no line that comes
\* after a blank line is among the lines of the block before that blank line,
\* so no parsed block holds a blank line with a line after it.
C24_BlankLineEndsBlockText ==
    (rtParsed.done /\ rtParsed.result.ok) =>
        \A b \in 1..Len(rtParsed.result.blocks) :
            \A j \in 1..(Len(rtParsed.result.blocks[b].lines) - 1) :
                strip(rtParsed.result.blocks[b].lines[j]) # <<>>

-----------------------------------------------------------------------------
(* Properties of time codes (SpecTime)                                      *)

\* the number a field of digits writes
FieldValue(s, from, to) == DigitsVal(SubSeq(s, from, to))

\* s is HH:MM:SS,mmm with two-digit hours, minutes and seconds in 00..59 and
\* milliseconds in 000..999
ValidTimeString(s) ==
    /\ Len(s) = 12
    /\ s[3] = ":" /\ s[6] = ":" /\ s[9] = ","
    /\ \A k \in {1, 2, 4, 5, 7, 8, 10, 11, 12} : isdigit(<<s[k]>>)
    /\ FieldValue(s, 4, 5) <= 59
    /\ FieldValue(s, 7, 8) <= 59

\* C11: for every valid time string HH:MM:SS,mmm, formatting the parsed value
\* gives back the same string.
C11_FormatInvertsParse ==
    /\ (tm.stage = "parsed" /\ ValidTimeString(tm.s)) => tm.parsed.ok
    /\ (tm.stage = "formatted" /\ ValidTimeString(tm.s)) => tm.formatted = tm.s

\* C11 happens: 99:59:59,999 was parsed and formatted back
C11_Witness ==
    /\ tm.stage = "formatted"
    /\ tm.s = <<"9", "9", ":", "5", "9", ":", "5", "9", ",", "9", "9", "9">>
    /\ tm.parsed.value = 359999999
    /\ tm.formatted = tm.s

\* C12: parsing a time-code line fails whenever the line does not match the
\* pattern or a numeric field is out of range (minutes or seconds above 59,
\* milliseconds above 999); no TimeCode comes of such a line.
C12_BadTimeLineRejected ==
    (tm.stage = "line" /\ tm.result.ok)
        => time_pattern_match(tm.line) /\ ValidTimeString(tm.s)

-----------------------------------------------------------------------------
(* Properties of the line engines (SpecEngine)                              *)

sentence_endings(engine) ==
    CASE engine = "zh" -> Chinese_sentence_endings
      [] engine = "en" -> English_sentence_endings
      [] engine = "ko" -> Korean_sentence_endings

\* Every line is at or under the character limit of the engine's language and
\* the last line ends in a sentence-terminal mark
WithinLimitAndTerminated(engine, cfg, block) ==
    /\ block.lines # <<>>
    /\ \A i \in 1..Len(block.lines) : Len(block.lines[i]) <= get_character_limit(cfg, engine)
    /\ block.lines[Len(block.lines)] # <<>>
    /\ block.lines[Len(block.lines)][Len(block.lines[Len(block.lines)])]
            \in sentence_endings(engine)

\* C13: for each engine, process_block applied to the block it returned gives
\* the same lines again, for every block whose lines are all at or under the
\* character limit and whose last line ends in terminal punctuation.
C13_ProcessBlockIdempotent ==
    (eng.stage = "twice" /\ WithinLimitAndTerminated(eng.engine, eng.cfg, eng.block))
        => eng.twice.lines = eng.once.lines

\* The sentence-terminal marks of the engine's language
TerminalMarks(engine) ==
    IF engine = "en" THEN {".", "!", "?"} ELSE {"U+3002", "U+FF01", "U+FF1F"}

\* pattern occurs in the line
Contains(line, pattern) ==
    \E p \in 1..(Len(line) - Len(pattern) + 1) : SubSeq(line, p, p + Len(pattern) - 1) = pattern

\* Some output line holds the end of input line a followed, with or without a
\* space, by the start of input line b, which no input line does
Joined(a, b, inputs, outputs) ==
    \E sep \in {<<>>, <<" ">>} :
        \E pattern \in {<<a[Len(a)]>> \o sep \o <<b[1]>>} :
            /\ \E o \in 1..Len(outputs) : Contains(outputs[o], pattern)
            /\ \A k \in 1..Len(inputs) : ~Contains(inputs[k], pattern)

\* C20: process_block joins no input line that ends in a sentence-terminal
\* mark of the engine's language with the line after it
C20_NoJoinAfterTerminalMark ==
    eng.stage = "once" =>
        \A i \in 1..(Len(eng.block.lines) - 1) :
            \A a \in {strip(eng.block.lines[i])}, b \in {strip(eng.block.lines[i + 1])} :
                (a # <<>> /\ b # <<>> /\ a[Len(a)] \in TerminalMarks(eng.engine))
                => ~Joined(a, b, eng.block.lines, eng.once.lines)

\* The characters of the lines, read in order, that are not white space
NonWhitespace(lines) == SelectSeq(Concat(lines), LAMBDA c : c \notin WS)

\* outputs holds the text of inputs, with at most the one mark of punctuation
\* repair after it
SameText(engine, cfg, inputs, outputs) ==
    \E given \in {NonWhitespace(inputs)}, got \in {NonWhitespace(outputs)} :
        \/ got = given
        \/ /\ engine \in {"zh", "ko"} /\ ~cfg.no_punct_fix
           /\ got = given \o <<IF engine = "zh" THEN "U+3002" ELSE ".">>

DialogueLines(lines) == {i \in 1..Len(lines) : startswith(lines[i], <<"-", " ">>)}

\* C30: no engine joins two dialogue-prefixed lines into one output line:
\* every input line that starts with "- " once normalized starts an output
\* line of its own, so the output has at least as many dialogue-prefixed lines
\* as the input.
C30_DialogueLinesStayApart ==
    eng.stage = "once" =>
        Cardinality(DialogueLines(eng.once.lines))
            >= Cardinality(DialogueLines(process_dialogue_format(eng.block.lines)))

-----------------------------------------------------------------------------
(* Properties of line breaking (SpecBreak, SpecBreakFair)                   *)

\* C14: for every input line and every engine _break_line_intelligently
\* terminates, and each recursive call is made on a tail strictly shorter than
\* the line of the calling invocation.
C14_BreakLineTerminates ==
    /\ [][(eng.stage = "call" /\ eng'.stage = "call") => Len(eng'.line) < Len(eng.line)]_vars
    /\ (eng.stage = "call") ~> (eng.stage = "returned")

\* A call on an English line that recursed twice and returned three parts
C14_Witness ==
    /\ eng.stage = "returned" /\ eng.engine = "en"
    /\ Len(eng.result) = 3
    /\ Len(eng.line) < Len(eng.input)

MinTail(engine) == IF engine = "zh" THEN 5 ELSE 4

\* The second part the cut chosen for a line would leave
ChosenTail(engine, cfg, line) ==
    LET char_limit == get_character_limit(cfg, cfg.language)
        tail(best) == lstrip(slice_from(line, IF best = -1 THEN char_limit ELSE best))
    IN  IF engine = "zh" THEN tail(Chinese_find_best_break_position(line, char_limit))
        ELSE tail(Korean_find_best_break_position(line, char_limit))

\* C15: the Chinese and Korean engines return an over-limit line unbroken when
\* fewer than 3 characters lie past the limit and when the chosen cut would
\* leave a tail shorter than 5 (Chinese) or 4 (Korean) characters; every split
\* they make leaves a tail of at least 5 / 4 characters.
C15_NoBreakThresholds ==
    (eng.stage # "none" /\ eng.engine \in {"zh", "ko"}) =>
        LET char_limit == get_character_limit(eng.cfg, eng.cfg.language)
        IN  /\ (eng.stage = "returned" /\ Len(eng.input) > char_limit
                    /\ (\/ Len(eng.input) - char_limit < 3
                        \/ Len(ChosenTail(eng.engine, eng.cfg, eng.input)) < MinTail(eng.engine)))
                => eng.result = <<eng.input>>
            /\ (eng.stage = "call" /\ eng.result # <<>>) => Len(eng.line) >= MinTail(eng.engine)
            /\ (eng.stage = "returned" /\ Len(eng.result) > 1)
                => Len(eng.result[Len(eng.result)]) >= MinTail(eng.engine)

\* A Chinese line of limit + 2 characters came back unbroken
C15_Witness ==
    /\ eng.stage = "returned" /\ eng.engine = "zh" /\ ~eng.cfg.sdh_mode
    /\ Len(eng.input) = get_character_limit(eng.cfg, "zh") + 2
    /\ eng.result = <<eng.input>>

\* The positions _find_best_break_position looks at, 0-based
SearchWindow(engine, line, limit) ==
    {i \in 0..(Len(line) - 1) : i >= limit - (IF engine = "zh" THEN 10 ELSE 8) /\ i < limit + 3}

\* The cut positions after a bound particle / helper word of the window that
\* leave a first part within the limit
ParticleCuts(engine, line, limit) ==
    IF engine = "zh"
    THEN {i + 1 : i \in {j \in SearchWindow(engine, line, limit) :
                            line[j + 1] \in Chinese_helper_words /\ j + 1 <= limit}}
    ELSE {i + 1 : i \in {j \in SearchWindow(engine, line, limit) :
                            <<line[j + 1]>> \in Korean_helper_particles /\ j + 1 <= limit}}
         \cup {i + 2 : i \in {j \in SearchWindow(engine, line, limit) :
                                /\ j + 2 <= Len(line) /\ j + 2 <= limit
                                /\ SubSeq(line, j + 1, j + 2) \in Korean_helper_particles}}

\* The cut positions after a punctuation mark of the window
PunctuationCuts(engine, line, limit) ==
    {i + 1 : i \in {j \in SearchWindow(engine, line, limit) :
                        /\ line[j + 1] \in (IF engine = "zh" THEN Chinese_punctuation
                                            ELSE Korean_punctuation)
                        /\ j + 1 <= limit}}

\* The cut positions at a space of the window
SpaceCuts(engine, line, limit) ==
    {j \in SearchWindow(engine, line, limit) : line[j + 1] = " " /\ j <= limit}

\* first and second are the two parts of the line cut at one of the positions
CutIn(line, cuts, first, second) ==
    \E pos \in cuts : first = rstrip(slice_to(line, pos)) /\ second = lstrip(slice_from(line, pos))

\* The cut is at a position of the first class, in the order given, that has one
CutByPreference(line, classes, first, second) ==
    \A k \in 1..Len(classes) :
        (classes[k] # {} /\ \A j \in 1..(k - 1) : classes[j] = {})
            => CutIn(line, classes[k], first, second)

\* Particle, then punctuation, then space
ParticleFirst(engine, line, limit, first, second) ==
    CutByPreference(line, <<ParticleCuts(engine, line, limit),
                            PunctuationCuts(engine, line, limit),
                            SpaceCuts(engine, line, limit)>>, first, second)

\* Space, then particle, then punctuation
SpaceFirst(engine, line, limit, first, second) ==
    CutByPreference(line, <<SpaceCuts(engine, line, limit),
                            ParticleCuts(engine, line, limit),
                            PunctuationCuts(engine, line, limit)>>, first, second)

\* C21 as stated: in the Chinese and the Korean engine every cut of an
\* over-limit line is made, within the search window, after a bound particle /
\* helper word when one is eligible, else after punctuation, else at a space;
\* so with a particle and a space both eligible the cut is after the particle.
C21_ParticleThenPunctuationThenSpace ==
    [][(eng.stage = "call" /\ eng'.stage = "call" /\ eng.engine \in {"zh", "ko"})
        => ParticleFirst(eng.engine, eng.line, get_character_limit(eng.cfg, eng.engine),
                         eng'.result[Len(eng'.result)], eng'.line)]_vars

\* C21, amended: the Chinese engine cuts after a helper word, else after
\* punctuation, else at a space; the Korean engine cuts at a space, else after
\* a particle, else after punctuation.
C21_ChineseParticleFirstKoreanSpaceFirst ==
    [][(eng.stage = "call" /\ eng'.stage = "call" /\ eng.engine \in {"zh", "ko"})
        => IF eng.engine = "zh"
           THEN ParticleFirst("zh", eng.line, get_character_limit(eng.cfg, "zh"),
                              eng'.result[Len(eng'.result)], eng'.line)
           ELSE SpaceFirst("ko", eng.line, get_character_limit(eng.cfg, "ko"),
                           eng'.result[Len(eng'.result)], eng'.line)]_vars

\* The first cut of a Korean line whose window holds an eligible particle and
\* an eligible space has been made, at the space
C21_Witness ==
    /\ eng.stage = "call" /\ Len(eng.result) = 1 /\ eng.engine = "ko"
    /\ \E limit \in {get_character_limit(eng.cfg, "ko")} :
          /\ ParticleCuts("ko", eng.input, limit) # {}
          /\ SpaceCuts("ko", eng.input, limit) # {}
          /\ CutIn(eng.input, SpaceCuts("ko", eng.input, limit), eng.result[1], eng.line)
          /\ ~CutIn(eng.input, ParticleCuts("ko", eng.input, limit), eng.result[1], eng.line)

\* The same for a Chinese line, cut after the helper word
C21_WitnessChinese ==
    /\ eng.stage = "call" /\ Len(eng.result) = 1 /\ eng.engine = "zh"
    /\ \E limit \in {get_character_limit(eng.cfg, "zh")} :
          /\ ParticleCuts("zh", eng.input, limit) # {}
          /\ SpaceCuts("zh", eng.input, limit) # {}
          /\ CutIn(eng.input, ParticleCuts("zh", eng.input, limit), eng.result[1], eng.line)
          /\ ~CutIn(eng.input, SpaceCuts("zh", eng.input, limit), eng.result[1], eng.line)

\* The 0-based positions at which a word of the line starts
WordStarts(line) ==
    {i \in 0..(Len(line) - 1) : line[i + 1] \notin WS /\ (i = 0 \/ line[i] \in WS)}

\* The word that starts at position i, in lower case and without the
\* punctuation around it
CleanWordAt(line, i) ==
    strip_chars(lower(SubSeq(line, i + 1,
                             SetMin({j \in (i + 1)..Len(line) :
                                        j = Len(line) \/ line[j + 1] \in WS}))),
                English_punctuation)

\* No clause punctuation, conjunction or preposition in [limit - 20, limit]
NoClauseBreak(line, limit) ==
    /\ \A i \in 0..(Len(line) - 1) :
          (limit - 20 <= i /\ i < limit) => line[i + 1] \notin {".", ",", "!", "?", ";", ":"}
    /\ \A i \in WordStarts(line) :
          (limit - 20 <= i /\ i <= limit)
            => CleanWordAt(line, i) \notin (English_conjunctions \cup English_prepositions)

\* The plain spaces in [limit - 15, limit + 5]
BoundarySpaces(line, limit) ==
    {i \in 0..(Len(line) - 1) : limit - 15 <= i /\ i < limit + 5 /\ line[i + 1] = " "}

\* At least 4 words lie past the limit and the part after the cut has at least
\* 20 characters and 3 words
RemainderMeetsThresholds(line, limit, pos) ==
    /\ Len(split_ws(slice_from(line, limit))) >= 4
    /\ Len(strip(slice_from(line, pos))) >= 20
    /\ Len(split_ws(slice_from(line, pos))) >= 3

\* C22: an over-limit English line with no clause punctuation, conjunction or
\* preposition in [limit - 20, limit], with a plain space in
\* [limit - 15, limit + 5] and a remainder that meets the word and length
\* thresholds is split at the nearest such space.
C22_FallsBackToNearestSpace ==
    (eng.stage = "returned" /\ eng.engine = "en") =>
        \A limit \in {get_character_limit(eng.cfg, "en")} :
            (/\ Len(eng.input) > limit
             /\ NoClauseBreak(eng.input, limit)
             /\ BoundarySpaces(eng.input, limit) # {}
             /\ RemainderMeetsThresholds(eng.input, limit, SetMax(BoundarySpaces(eng.input, limit))))
            => /\ Len(eng.result) >= 2
               /\ eng.result[1] =
                    rstrip(slice_to(eng.input, SetMax(BoundarySpaces(eng.input, limit))))

\* C28: in every engine each line _break_line_intelligently emits, other than
\* the last line of its result, is non-empty and at most the character limit
\* long.
C28_OnlyLastPieceOverLimit ==
    eng.stage \in {"call", "returned"} =>
        \A k \in 1..Len(eng.result) :
            (eng.stage = "call" \/ k < Len(eng.result))
                => /\ eng.result[k] # <<>>
                   /\ Len(eng.result[k]) <= get_character_limit(eng.cfg, eng.cfg.language)

\* A line came back in two pieces or more, the last of them over the limit
C28_Witness ==
    /\ eng.stage = "returned"
    /\ Len(eng.result) >= 2
    /\ Len(eng.result[Len(eng.result)]) > get_character_limit(eng.cfg, eng.cfg.language)

\* C29: the English engine splits a line only at a word boundary: the lines
\* _break_line_intelligently emits, and the rest it still holds, are made of
\* the whole words of the input line, in order.
C29_EnglishCutsAtWordBoundaries ==
    (eng.stage \in {"call", "returned"} /\ eng.engine = "en") =>
        split_ws(join(eng.result \o (IF eng.stage = "call" THEN <<eng.line>> ELSE <<>>),
                      <<" ">>))
            = split_ws(eng.input)

-----------------------------------------------------------------------------
(* Properties of the dispatch of blocks to the engines (SpecDocument)       *)

\* The language of each line
LineLanguages(lines) == [k \in 1..Len(lines) |-> detect_line_language(lines[k])]

\* The maximal runs of consecutive lines of one language, in order; langs are
\* the languages of the lines
RECURSIVE LanguageRuns(_, _)
LanguageRuns(lines, langs) ==
    LET run(n) ==
            <<[language |-> langs[1], lines |-> SubSeq(lines, 1, n)]>>
            \o LanguageRuns(SubSeq(lines, n + 1, Len(lines)), SubSeq(langs, n + 1, Len(langs)))
    IN  IF lines = <<>> THEN <<>>
        ELSE run(SetMax({k \in 1..Len(lines) : \A j \in 1..k : langs[j] = langs[1]}))

\* What the engine of the run's language makes of the run, that language being
\* the target; the run itself when the language has no engine
RunOutput(cfg, block, run) ==
    IF run.language \in processors
    THEN process_block(run.language, [cfg EXCEPT !.language = run.language],
                       [block EXCEPT !.lines = run.lines, !.language = run.language]).lines
    ELSE run.lines

Letters == chinese_pattern \cup korean_pattern \cup hiragana_pattern
           \cup katakana_pattern \cup ascii_pattern

\* The letters of the line all come from input lines of one language
FromOneLanguage(inputs, langs, line) ==
    \E L \in {"zh", "en", "ko", "ja"} :
        \A k \in 1..Len(line) :
            line[k] \in Letters =>
                \E i \in 1..Len(inputs) :
                    langs[i] = L /\ \E m \in 1..Len(inputs[i]) : inputs[i][m] = line[k]

\* The blocks process_file hands to _process_document, once a file is processed
LoadedBlocks == load_document(supplied, last.file).blocks

BilingualHandled(block, langs, out) ==
    /\ out.lines = With(LanguageRuns(block.lines, langs),
                        LAMBDA runs : Concat([r \in 1..Len(runs) |->
                                                RunOutput(last.result.config, block, runs[r])]))
    /\ \A o \in 1..Len(out.lines) : FromOneLanguage(block.lines, langs, out.lines[o])

C19_EngineUsesLimitOfBlockLanguage ==
    (last.op = "process_file" /\ last.result.ok) =>
        \A loaded \in {LoadedBlocks} :
            \A i \in 1..Len(loaded) :
                \A L \in {block_language_of(loaded[i], last.result.detected_language)} :
                    (~is_bilingual_block(loaded[i]) /\ L \in processors)
                    => last.result.blocks[i].lines
                       = process_block(L, [last.result.config EXCEPT !.language = L],
                                       loaded[i]).lines

-----------------------------------------------------------------------------
(* Properties of the batch loops (SpecBatch)                                *)

\* C17: when _process_batch or _check_batch prints its summary, every file
\* found was attempted exactly once, in order, and processed_count (or
\* checked_count) plus failed_count is the number of files
C17_EveryFileCountedOnce ==
    batch.stage = "summary" =>
        /\ batch.attempted = [k \in 1..Len(batch.srt_files) |-> k]
        /\ batch.processed_count + batch.checked_count + batch.failed_count
           = Len(batch.srt_files)

-----------------------------------------------------------------------------
(* Properties of the detector (SpecDetect)                                  *)

\* The scores of the stated formulas in exact arithmetic, each times
\* 2 * total_chars: 10 * script ratio + 2 * punctuation ratio (English:
\* 10 * Latin ratio when the CJK ratio is under 0.1, else 2 * Latin ratio;
\* Japanese: kana ratio plus half the Han ratio); a score under 0.01 is 0
StatedScores(c) ==
    LET total == IF c.total_chars > 1 THEN c.total_chars ELSE 1
        cjk_total == c.chinese + c.korean + c.hiragana + c.katakana
        raw == [zh |-> 20 * c.chinese + 4 * c.chinese_punct,
                en |-> IF 10 * cjk_total < total THEN 20 * c.ascii ELSE 4 * c.ascii,
                ko |-> 20 * c.korean + 4 * c.korean_punct,
                ja |-> 20 * (c.hiragana + c.katakana) + 10 * c.chinese + 4 * c.japanese_punct]
    IN  [lang \in {"zh", "en", "ko", "ja"} |-> IF 50 * raw[lang] < total THEN 0 ELSE raw[lang]]

\* The first of Chinese, English, Korean, Japanese among the languages of
\* highest stated score
StatedWinner(c) ==
    Languages[SetMin({k \in 1..4 :
                        \A j \in 1..4 :
                            StatedScores(c)[Languages[j]] <= StatedScores(c)[Languages[k]]})]

\* C18: the detector returns English for empty or blank text and otherwise
\* the language of highest score under the stated formulas, the first of
\* Chinese, English, Korean, Japanese on a tie; so a text of nine Han
\* characters and one Latin letter is Chinese
C18_HighestScoreFirstOnTie ==
    det.stage = "detected" =>
        det.result = IF strip(det.text) = <<>> THEN "en"
                     ELSE StatedWinner(count_characters(det.text))

-----------------------------------------------------------------------------
(* Properties of punctuation repair (SpecRepair)                            *)

\* The mark the engine's repair appends
DefaultMark(engine) == IF engine = "zh" THEN "U+3002" ELSE "."

\* The line ends in a sentence-terminal mark or in the mark repair appends
EndsInTerminalMark(engine, line) ==
    /\ line # <<>>
    /\ line[Len(line)] \in TerminalMarks(engine) \cup {DefaultMark(engine)}

\* C23: punctuation repair of the Chinese and the Korean engine leaves every
\* line but the last alone, changes the last line only by appending the default
\* terminal mark, leaves a final line that ends in a terminal mark (the mark
\* repair appends included) unchanged, and adds nothing to its own output.
C23_RepairAddsNothingToItsOutput ==
    /\ eng.stage \in {"once", "twice"} =>
          /\ Len(eng.once) = Len(eng.lines)
          /\ \A i \in 1..(Len(eng.lines) - 1) : eng.once[i] = eng.lines[i]
          /\ eng.once[Len(eng.once)] \in
                {eng.lines[Len(eng.lines)],
                 strip(eng.lines[Len(eng.lines)]) \o <<DefaultMark(eng.engine)>>}
          /\ EndsInTerminalMark(eng.engine, strip(eng.lines[Len(eng.lines)]))
                => eng.once = eng.lines
    /\ eng.stage = "twice" => eng.twice = eng.once

-----------------------------------------------------------------------------
(* Properties of the parser on any text (SpecParse)                         *)

\* The blocks of a text as runs of lines between blank lines: <<first, last>>
BlockRuns(lines) ==
    {run \in (1..Len(lines)) \X (1..Len(lines)) :
        /\ run[1] <= run[2]
        /\ \A i \in run[1]..run[2] : strip(lines[i]) # <<>>
        /\ run[1] = 1 \/ strip(lines[run[1] - 1]) = <<>>
        /\ run[2] = Len(lines) \/ strip(lines[run[2] + 1]) = <<>>}

\* The run starts with a positive integer and a valid time-code line and has
\* a text line
WellFormedRun(lines, run) ==
    /\ isdigit(strip(lines[run[1]])) /\ DigitsVal(strip(lines[run[1]])) >= 1
    /\ run[2] >= run[1] + 2
    /\ time_pattern_match(strip(lines[run[1] + 1]))
    /\ from_srt_time(strip(lines[run[1] + 1])).ok

\* C25: parse_content fails with an SRTParseError that carries a line number
\* whenever a block of the text, the first or a later one, has an index line
\* that is not a positive integer, no valid time-code line or no text line;
\* every block of a parsed document has an index >= 1, a time code and a text
\* line.
C25_MalformedBlockFails ==
    rtParsed.done =>
        /\ \A lines \in {split(strip(rtText.text), <<"\n">>)} :
              (\E run \in BlockRuns(lines) : ~WellFormedRun(lines, run))
                => /\ ~rtParsed.result.ok
                   /\ rtParsed.result.line_number \in 1..Len(lines)
        /\ rtParsed.result.ok =>
              \A b \in 1..Len(rtParsed.result.blocks) :
                  /\ rtParsed.result.blocks[b].index >= 1
                  /\ rtParsed.result.blocks[b].time_code.start \in Nat
                  /\ rtParsed.result.blocks[b].time_code.end \in Nat
                  /\ Len(rtParsed.result.blocks[b].lines) >= 1

====
